---- MODULE Spec2Model ----
(***************************************************************************)
(* A model of the planning primitives of lsst.pipe.supertask:              *)
(*   - pipelineTools.isPipelineOrdered  (specification SpecPipeline)       *)
(*   - quantum.Quantum.__init__         (specification SpecQuantum)        *)
(*   - configOverrides.ConfigOverrides  (specification SpecOverrides)      *)
(* Each specification drives one component; the variables of the other     *)
(* components stay at their initial values.                                *)
(***************************************************************************)
EXTENDS Integers, Sequences, FiniteSets, TLC

VARIABLES
    \* ---- pipelineTools.isPipelineOrdered ----
    pipeline,       \* the Pipeline: a sequence of TaskDef records
    pipelineAtCall, \* history: the pipeline as it was when the call started
    taskFactory,    \* TRUE iff a taskFactory argument was supplied
    pc,             \* position of the call: "idle", "producers", "consumers", "done"
    idx,            \* loop index of the running loop (0-based, as enumerate())
    producerIndex,  \* the local dict DatasetType name -> producer's index
    result,         \* outcome of the call
    loadCalls,      \* history: indices for which taskFactory.loadTaskClass was called
    lastResult,     \* history: how the call before the present one ended
    \* ---- quantum.Quantum ----
    quantum,        \* the object under construction / constructed
    qresult,        \* outcome of Quantum.__init__
    \* ---- configOverrides.ConfigOverrides ----
    overrides,      \* ConfigOverrides._overrides
    addCalls,       \* history: the add* calls made, in call order
    config,         \* the configuration object handed to applyTo
    isPipelineTaskConfig, \* isinstance(config, PipelineTaskConfig)
    apc,            \* position of applyTo: "idle", "loop", "done", "raised"
    pos,            \* index (1-based) of the override the loop is at
    error,          \* the exception applyTo ended with ("" when none)
    calls,          \* history: calls made on the configuration and its collaborators
    before,         \* history: config as it was when the last override was started
    applied,        \* history: the entries the loop of applyTo has visited
    libErrors,      \* the errors the configuration library raises in setattr
    prev,           \* history: how the first applyTo of the present list ended
    \* ---- graphTools.graph2dot ----
    gpc,            \* position of graph2dot: "idle", "nodes", "quanta", "inputs",
                    \* "outputs", "done", "raised"
    gfile,          \* the file argument: "object", "name" or "badname"
    closed,         \* TRUE iff graph2dot has closed the file it opened
    taskId,         \* index of the current element of qgraph (enumerate)
    qId,            \* index of the current quantum of nodes.quanta (enumerate)
    allDatasetRefs, \* the local dict identifying string -> index of the node name
    written,        \* the statements printed to the file, in order
    qgraphRead,     \* history: the part of qgraph the loops have iterated over
    \* ---- cmdLineActivator.CmdLineActivator ----
    dpc,            \* position of parseAndRun: "idle", "parsed", "doCmdLineTask",
                    \* "doSuperTask", "precall", "targets", "seq", "par",
                    \* "returned", "raised"
    dargs,          \* the parsed command line and what the task name stands for
    taskKind,       \* task_kind of the loaded class
    numProc,        \* the number of processes doSuperTask settled on
    mapMode,        \* the map function chosen: "none", "seq", "par"
    targetList,     \* target_list
    running,        \* positions of the targets whose invocation is under way
    ended,          \* positions of the targets whose invocation has ended
    failures,       \* the invocations that raised, in the order they did
    results,        \* the results the map function has collected
    pool,           \* "running" once the multiprocessing pool was made
    doutcome,       \* how parseAndRun ended
    events,         \* history: what the run did, in order
    legacy,         \* what parse_and_run of activator.py did
    timeout,        \* the timeout of the map function chosen (0 when it has none)
    \* ---- CmdLineActivator._makeArgumentList ----
    cmdArgs,        \* args, the parsed command line
    extraArgs,      \* extra_args
    argv,           \* the list returned
    argvMade,       \* TRUE iff _makeArgumentList has returned
    \* ---- ExecutionPlanBuilder.buildPlan ----
    bpc,            \* position of buildPlan: "idle", "forward", "backward", "done"
    planPipeline,   \* pipeline: the tasks in pipeline order
    request,        \* availableInputs and requestedOutputs as given to the call
    callerSets,     \* the caller's two sets as they are now
    planPool,       \* inputsPool (forward mode) or outputsPool (backward mode)
    plan,           \* the result list
    handed          \* history: for each task processed, the pool and the
                    \* quanta it declared

pipeVars == <<pipeline, pipelineAtCall, taskFactory, pc, idx, producerIndex, result, loadCalls,
              lastResult>>
quantumVars == <<quantum, qresult>>
overrideVars == <<overrides, addCalls, config, isPipelineTaskConfig, apc, pos,
                  error, calls, before, applied, libErrors, prev>>
graphVars == <<gpc, gfile, closed, taskId, qId, allDatasetRefs, written, qgraphRead>>
dispatchVars == <<dpc, dargs, taskKind, numProc, mapMode, targetList, running, ended,
                  failures, results, pool, doutcome, events, legacy, timeout>>
argVars == <<cmdArgs, extraArgs, argv, argvMade>>
planVars == <<bpc, planPipeline, request, callerSets, planPool, plan, handed>>
vars == <<pipeVars, quantumVars, overrideVars, graphVars, dispatchVars, argVars, planVars>>

-----------------------------------------------------------------------------
(* Bounds of the model.                                                    *)
MaxTasks == 2
MaxOverrides == 2
MaxSteps == 2       \* elements of qgraph
MaxQuanta == 2      \* quanta of one qgraph, over all its elements
MaxRefs == 2        \* DatasetRefs of one qgraph, over all its quanta
MaxTargets == 2     \* targets of one target list
MaxPlanQuanta == 2  \* quanta one task declares in buildPlan

-----------------------------------------------------------------------------
(***************************************************************************)
(* pipelineTools.isPipelineOrdered                                         *)
(***************************************************************************)

\* DatasetType names used by the task classes of the model.
DatasetTypeNames == {"A", "B"}

\* Field names of the dicts returned by getInputDatasetTypes /
\* getOutputDatasetTypes; a dict is modelled by the sequence of the names of
\* its values, in iteration order.
InputFieldNames == <<"input">>
OutputFieldNames == <<"output", "output2">>

DictValues(fieldNames) ==
    UNION { [1..n -> DatasetTypeNames] : n \in 0..Len(fieldNames) }

\* TaskDef: taskClass is TRUE when the class is set (truthy), FALSE when it
\* is None; inputs/outputs are what the task class named by the TaskDef
\* declares for the TaskDef's config.
TaskDefs ==
    [taskClass : BOOLEAN,
     inputs : DictValues(InputFieldNames),
     outputs : DictValues(OutputFieldNames)]

Pipelines == UNION { [1..n -> TaskDefs] : n \in 0..MaxTasks }

NoResult == [type |-> "none", why |-> ""]
Returned(b) == [type |-> IF b THEN "True" ELSE "False", why |-> ""]
Raised(t, w) == [type |-> t, why |-> w]

EmptyDict == [k \in {} |-> 0]

\* dict.get(key, default)
DictGet(d, k, default) == IF k \in DOMAIN d THEN d[k] ELSE default

\* Variant of ProducerOf: a pre-existing dataset gets index 0.
ProducerOfDefaultZero(pi, name) == DictGet(pi, name, 0)

\* Line 102: all pre-existing datasets have effective index -1.
ProducerOf(pi, name) == DictGet(pi, name, -1)

\* Variant of NoFactoryOutcome: the pipeline is reported as not ordered.
NoFactoryReturnsFalse == Returned(FALSE)

\* Lines 80-82: the task class is not set and no factory was given.
NoFactoryOutcome == Raised("ValueError", "factory")

\* Variant of AddOutputs: a later producer silently replaces an earlier one.
RECURSIVE AddOutputsLastWins(_, _, _, _)
AddOutputsLastWins(pi, outs, k, i) ==
    IF k > Len(outs) THEN [dup |-> FALSE, pi |-> pi]
    ELSE AddOutputsLastWins([n \in DOMAIN pi \cup {outs[k]} |->
                                IF n = outs[k] THEN i ELSE pi[n]],
                            outs, k + 1, i)

\* Lines 87-91: the loop over outputs.values() of one task. Gives the dict
\* after the loop and whether the loop raised on a name already present.
RECURSIVE AddOutputs(_, _, _, _)
AddOutputs(pi, outs, k, i) ==
    IF k > Len(outs) THEN [dup |-> FALSE, pi |-> pi]
    ELSE IF outs[k] \in DOMAIN pi THEN [dup |-> TRUE, pi |-> pi]
    ELSE AddOutputs([n \in DOMAIN pi \cup {outs[k]} |->
                        IF n = outs[k] THEN i ELSE pi[n]],
                    outs, k + 1, i)

\* Variant of ProducerDownstream: a producer at the consumer's own index is
\* accepted.
ProducerStrictlyDownstream(pi, ins, i) ==
    \E k \in 1..Len(ins) : ProducerOf(pi, ins[k]) > i

\* Lines 100-105: the loop over inputs.values() of one task; TRUE iff some
\* input has its producer at this index or later.
ProducerDownstream(pi, ins, i) ==
    \E k \in 1..Len(ins) : ProducerOf(pi, ins[k]) >= i

\* Variant of NeedsLoading: the class is loaded for every TaskDef.
NeedsLoadingAlways(taskDef) == TRUE

\* Line 79: the class is loaded only when the TaskDef has none.
NeedsLoading(taskDef) == ~taskDef.taskClass

PipeInit ==
    /\ pipeline \in Pipelines
    /\ pipelineAtCall = pipeline
    /\ taskFactory = FALSE
    /\ pc = "idle"
    /\ idx = 0
    /\ producerIndex = EmptyDict
    /\ result = NoResult
    /\ loadCalls = <<>>
    /\ lastResult = NoResult

\* The pipeline component at rest, for the specifications of the other
\* components: an empty pipeline and no call.
PipeInitIdle ==
    /\ pipeline = <<>>
    /\ pipelineAtCall = <<>>
    /\ taskFactory = FALSE
    /\ pc = "idle"
    /\ idx = 0
    /\ producerIndex = EmptyDict
    /\ result = NoResult
    /\ loadCalls = <<>>
    /\ lastResult = NoResult

\* Entry of isPipelineOrdered(pipeline, taskFactory), line 75.
CallIsPipelineOrdered ==
    /\ pc \in {"idle", "done"}
    /\ \E f \in BOOLEAN : taskFactory' = f
    /\ pipelineAtCall' = pipeline
    /\ pc' = "producers"
    /\ idx' = 0
    /\ producerIndex' = EmptyDict
    /\ result' = NoResult
    /\ loadCalls' = <<>>
    /\ lastResult' = result
    /\ UNCHANGED pipeline

\* One iteration of the first loop, lines 76-91, for the task at idx.
\* loadTaskClass is a call to an external factory: it gives the class or
\* raises ImportError.
ProducerStep ==
    /\ pc = "producers"
    /\ idx < Len(pipeline)
    /\ LET taskDef == pipeline[idx + 1]
           outs == AddOutputs(producerIndex, taskDef.outputs, 1, idx)
           Outputs ==
               IF outs.dup
               THEN /\ result' = Raised("ValueError", "duplicate")
                    /\ pc' = "done"
                    /\ UNCHANGED <<idx, producerIndex>>
               ELSE /\ producerIndex' = outs.pi
                    /\ idx' = idx + 1
                    /\ UNCHANGED <<pc, result>>
       IN IF NeedsLoading(taskDef)
          THEN IF ~taskFactory
               THEN /\ result' = NoFactoryOutcome
                    /\ pc' = "done"
                    /\ UNCHANGED <<pipeline, idx, producerIndex, loadCalls>>
               ELSE /\ loadCalls' = Append(loadCalls, idx)
                    /\ \E loaded \in BOOLEAN :
                         IF loaded
                         THEN /\ pipeline' = [pipeline EXCEPT ![idx + 1].taskClass = TRUE]
                              /\ Outputs
                         ELSE /\ result' = Raised("ImportError", "load")
                              /\ pc' = "done"
                              /\ UNCHANGED <<pipeline, idx, producerIndex>>
          ELSE /\ Outputs
               /\ UNCHANGED <<pipeline, loadCalls>>
    /\ UNCHANGED <<pipelineAtCall, taskFactory, lastResult>>

\* End of the first loop, lines 93-96: the second loop starts.
StartConsumers ==
    /\ pc = "producers"
    /\ idx = Len(pipeline)
    /\ pc' = "consumers"
    /\ idx' = 0
    /\ UNCHANGED <<pipeline, pipelineAtCall, taskFactory, producerIndex, result, loadCalls,
                   lastResult>>

\* One iteration of the second loop, lines 96-105, for the task at idx.
ConsumerStep ==
    /\ pc = "consumers"
    /\ idx < Len(pipeline)
    /\ IF ProducerDownstream(producerIndex, pipeline[idx + 1].inputs, idx)
       THEN /\ result' = Returned(FALSE)
            /\ pc' = "done"
            /\ UNCHANGED idx
       ELSE /\ idx' = idx + 1
            /\ UNCHANGED <<pc, result>>
    /\ UNCHANGED <<pipeline, pipelineAtCall, taskFactory, producerIndex, loadCalls, lastResult>>

\* Line 107.
ReturnTrue ==
    /\ pc = "consumers"
    /\ idx = Len(pipeline)
    /\ result' = Returned(TRUE)
    /\ pc' = "done"
    /\ UNCHANGED <<pipeline, pipelineAtCall, taskFactory, idx, producerIndex, loadCalls,
                   lastResult>>


-----------------------------------------------------------------------------
(***************************************************************************)
(* quantum.Quantum                                                         *)
(***************************************************************************)

\* Dataset-type names used as keys of the inputs and outputs dicts.
QuantumKeys == {"raw", "calexp", "src"}

\* Values of the director argument: <<>> is None, <<s>> is the str s.
\* "missing" is a key of no dict of the model; "" is the empty str.
Directors == {<<>>} \cup { <<s>> : s \in QuantumKeys \cup {"missing", ""} }

\* Values of the extras argument (opaque to Quantum).
Extras == {"None", "payload"}

\* Python truth value of a director: None and the empty str are false.
Truthy(director) == director # <<>> /\ director[1] # ""

\* `name in d` for a director that is a str.
InDict(director, keys) == director # <<>> /\ director[1] \in keys

\* Variant of DirectorInconsistent: only the inputs are looked at.
DirectorNotInInputs(inputs, outputs, director) ==
    Truthy(director) /\ ~InDict(director, inputs)

\* Line 62: the condition under which __init__ raises.
DirectorInconsistent(inputs, outputs, director) ==
    Truthy(director) /\ ~InDict(director, inputs) /\ ~InDict(director, outputs)

QuantumInit ==
    /\ quantum = [inputs |-> {}, outputs |-> {}, extras |-> "None", director |-> <<>>]
    /\ qresult = "none"

\* Quantum.__init__, lines 55-63: the four attributes are assigned, then the
\* consistency of director is checked.
QuantumConstruct ==
    \E inputs \in SUBSET QuantumKeys, outputs \in SUBSET QuantumKeys,
       extras \in Extras, director \in Directors :
        /\ quantum' = [inputs |-> inputs, outputs |-> outputs,
                       extras |-> extras, director |-> director]
        /\ qresult' = IF DirectorInconsistent(inputs, outputs, director)
                      THEN "ValueError" ELSE "constructed"


-----------------------------------------------------------------------------
(***************************************************************************)
(* configOverrides.ConfigOverrides                                         *)
(***************************************************************************)

(* Values.  A Python value is a record [t, v]: t is its type and v a       *)
(* sequence of integers: the character codes of a str, the one number of   *)
(* an int, the items of a list, the keys and values k1, v1, k2, v2, ... of *)
(* a dict.  None has type "none".                                          *)
NoValue == [t |-> "none", v |-> <<>>]
StrV(codes) == [t |-> "str", v |-> codes]
IntV(n) == [t |-> "int", v |-> <<n>>]
ListV(items) == [t |-> "list", v |-> items]
DictV(flat) == [t |-> "dict", v |-> flat]

\* Texts of the model, as character codes.
Text7 == <<55>>                       \* "7"
TextList == <<91, 49, 44, 50, 93>>    \* "[1,2]"
TextName == <<120>>                   \* "x"
TextBad == <<91, 49>>                 \* "[1"
TextDict == <<123, 49, 58, 50, 125>>  \* "{1:2}"
FieldN == <<110>>                     \* "n"
FieldL == <<108>>                     \* "l"
FieldO == <<111>>                     \* "o"
FieldSM == <<115, 46, 109>>           \* "s.m"
FieldZN == <<122, 46, 110>>           \* "z.n"

IsDigit(c) == c \in 48..57
IsLetter(c) == c \in 97..122
AllDigits(s) == s # <<>> /\ \A i \in DOMAIN s : IsDigit(s[i])
AllLetters(s) == s # <<>> /\ \A i \in DOMAIN s : IsLetter(s[i])

RECURSIVE ToInt(_)
ToInt(s) ==
    IF s = <<>> THEN 0
    ELSE 10 * ToInt(SubSeq(s, 1, Len(s) - 1)) + (s[Len(s)] - 48)

\* str.split(sep) for a one-character separator.
RECURSIVE Split(_, _)
Split(s, sep) ==
    IF \A i \in DOMAIN s : s[i] # sep THEN <<s>>
    ELSE LET i == CHOOSE j \in DOMAIN s :
                    s[j] = sep /\ \A h \in 1..(j - 1) : s[h] # sep
         IN <<SubSeq(s, 1, i - 1)>> \o Split(SubSeq(s, i + 1, Len(s)), sep)

RECURSIVE Flatten(_)
Flatten(ss) == IF ss = <<>> THEN <<>> ELSE Head(ss) \o Flatten(Tail(ss))

\* The Python expressions the model reads: an integer, a name, a list of
\* integers, a dict from integers to integers.  kind is "value" (val is the
\* value), "name" (a bare identifier) or "syntax" (not an expression).
\* items are the comma-separated parts of the text between the brackets
\* (inner), pairs the colon-separated parts of each item.
ParseParts(s, inner, items, pairs) ==
    IF AllDigits(s) THEN [kind |-> "value", val |-> IntV(ToInt(s))]
    ELSE IF AllLetters(s) THEN [kind |-> "name", val |-> NoValue]
    ELSE IF Len(s) >= 2 /\ s[1] = 91 /\ s[Len(s)] = 93
    THEN IF inner = <<>> THEN [kind |-> "value", val |-> ListV(<<>>)]
         ELSE IF \A i \in DOMAIN items : AllDigits(items[i])
         THEN [kind |-> "value",
               val |-> ListV([i \in DOMAIN items |-> ToInt(items[i])])]
         ELSE [kind |-> "syntax", val |-> NoValue]
    ELSE IF Len(s) >= 2 /\ s[1] = 123 /\ s[Len(s)] = 125
    THEN IF inner = <<>> THEN [kind |-> "value", val |-> DictV(<<>>)]
         ELSE IF \A i \in DOMAIN pairs :
                     Len(pairs[i]) = 2 /\ AllDigits(pairs[i][1]) /\ AllDigits(pairs[i][2])
         THEN [kind |-> "value",
               val |-> DictV(Flatten([i \in DOMAIN pairs |->
                             <<ToInt(pairs[i][1]), ToInt(pairs[i][2])>>]))]
         ELSE [kind |-> "syntax", val |-> NoValue]
    ELSE [kind |-> "syntax", val |-> NoValue]

ParseItems(s, inner, items) ==
    ParseParts(s, inner, items, [i \in DOMAIN items |-> Split(items[i], 58)])

ParseInner(s, inner) == ParseItems(s, inner, Split(inner, 44))

ParseExpr(s) == ParseInner(s, SubSeq(s, 2, Len(s) - 1))

\* The outcome of eval for a parsed text: a bare name is a NameError.
EvalOf(r) ==
    [out |-> CASE r.kind = "value" -> "ok"
               [] r.kind = "name" -> "NameError"
               [] OTHER -> "SyntaxError",
     val |-> r.val]

\* eval(value, {}).
Eval(s) == EvalOf(ParseExpr(s))

\* The outcome of ast.literal_eval for a parsed text: a bare name is a
\* ValueError (malformed node).
LiteralEvalOf(r) ==
    [out |-> CASE r.kind = "value" -> "ok"
               [] r.kind = "name" -> "ValueError"
               [] OTHER -> "SyntaxError",
     val |-> r.val]

\* ast.literal_eval(override).
LiteralEval(s) == LiteralEvalOf(ParseExpr(s))

(* The configuration.  config.n is an int field, config.l a list field     *)
(* that holds a list, config.o a list field whose value is None,           *)
(* config.s a sub-configuration with the str field m; templateNames is     *)
(* what formatTemplateNames was last given.                                *)
DefaultConfig ==
    [n |-> IntV(0), l |-> ListV(<<>>), o |-> NoValue, sm |-> StrV(<<>>),
     templateNames |-> NoValue]

FieldType(key) ==
    CASE key = "n" -> "int"
      [] key = "l" -> "list"
      [] key = "o" -> "list"
      [] key = "sm" -> "str"
      [] OTHER -> "config"

\* getattr(obj, attr) on the configuration objects "config" and "sub".
GetAttr(obj, attr) ==
    CASE obj = "config" /\ attr = <<110>> -> [kind |-> "field", name |-> "n"]
      [] obj = "config" /\ attr = <<108>> -> [kind |-> "field", name |-> "l"]
      [] obj = "config" /\ attr = <<111>> -> [kind |-> "field", name |-> "o"]
      [] obj = "config" /\ attr = <<115>> -> [kind |-> "object", name |-> "sub"]
      [] obj = "sub" /\ attr = <<109>> -> [kind |-> "field", name |-> "sm"]
      [] OTHER -> [kind |-> "missing", name |-> ""]

\* Lines 102-104: the walk over field[:-1]; the owning object or "missing".
RECURSIVE WalkPath(_, _, _)
WalkPath(obj, segs, k) ==
    IF k >= Len(segs) THEN obj
    ELSE LET a == GetAttr(obj, segs[k])
         IN IF a.kind = "object" THEN WalkPath(a.name, segs, k + 1) ELSE "missing"

\* Whether the field accepts the value in setattr: an int or str field
\* takes its own type, a list field a list or (an iterable) a str.
Accepts(ftype, value) ==
    CASE ftype = "int" -> value.t = "int"
      [] ftype = "str" -> value.t = "str"
      [] ftype = "list" -> value.t \in {"list", "str"}
      [] OTHER -> FALSE

\* What the field holds after an accepted setattr: a list field holds the
\* items of the iterable, for a str its characters.
Stored(ftype, value) ==
    IF ftype = "list" /\ value.t = "str" THEN ListV(value.v) ELSE value

\* Errors of a setattr that is not accepted (the configuration library
\* decides which).
SetAttrErrors == {"TypeError", "FieldValidationError"}

\* Files known to config.load: "good.py" holds `config.n = 1`,
\* "missing.py" does not exist.
FileNames == {"good.py", "missing.py"}

\* The entries of ConfigOverrides._overrides: (otype, override).
FileEntry(name) == [otype |-> "file", name |-> name, field |-> <<>>, value |-> NoValue]
ValueEntry(field, value) == [otype |-> "value", name |-> "", field |-> field, value |-> value]
NamesEntry(text) == [otype |-> "namesDict", name |-> "", field |-> <<>>, value |-> StrV(text)]

\* Arguments of the add* calls.
OverrideFields == {FieldN, FieldL, FieldO, FieldSM, FieldZN}
OverrideValues == {StrV(Text7), StrV(TextList), StrV(TextName), IntV(5), ListV(<<3>>)}
NamesTexts == {TextDict, TextList, TextName, TextBad}

Call(op, i, key, val, out) == [op |-> op, idx |-> i, key |-> key, val |-> val, out |-> out]

Outcome(cfg, err, cs) == [config |-> cfg, error |-> err, calls |-> cs]

\* Lines 96-97.
ApplyFile(cfg, ov, i) ==
    IF ov.name = "good.py"
    THEN Outcome([cfg EXCEPT !.n = IntV(1)], "", <<Call("load", i, ov.name, NoValue, "ok")>>)
    ELSE Outcome(cfg, "IOError", <<Call("load", i, ov.name, NoValue, "IOError")>>)

\* Variant of NeedsListParse: the text is never parsed before the setattr.
NeverListParse(current, value) == FALSE

\* Line 110: the attribute's current value is a List and the value a str.
NeedsListParse(current, value) == current.t = "list" /\ value.t = "str"

\* Variant of CaughtForRetry: every exception of the setattr is caught.
CaughtAnyError(err) == TRUE

\* Line 119: except TypeError.
CaughtForRetry(err) == err = "TypeError"

\* Lines 117-124: setattr, and on TypeError with a str value eval and a
\* second setattr.  e1 and e2 are the errors the library raises if the
\* first and the second setattr are not accepted; ev is what eval gives
\* for the value when it is a str.
AssignEvaluated(cfg, key, ftype, value, i, e1, e2, ev) ==
    IF Accepts(ftype, value)
    THEN Outcome([cfg EXCEPT ![key] = Stored(ftype, value)], "",
                 <<Call("setattr", i, key, value, "ok")>>)
    ELSE IF ~CaughtForRetry(e1) \/ value.t # "str"
    THEN Outcome(cfg, e1, <<Call("setattr", i, key, value, e1)>>)
    ELSE IF ev.out # "ok"
    THEN Outcome(cfg, ev.out,
                 <<Call("setattr", i, key, value, e1), Call("eval", i, key, value, ev.out)>>)
    ELSE IF Accepts(ftype, ev.val)
    THEN Outcome([cfg EXCEPT ![key] = Stored(ftype, ev.val)], "",
                 <<Call("setattr", i, key, value, e1), Call("eval", i, key, value, "ok"),
                   Call("setattr", i, key, ev.val, "ok")>>)
    ELSE Outcome(cfg, e2,
                 <<Call("setattr", i, key, value, e1), Call("eval", i, key, value, "ok"),
                   Call("setattr", i, key, ev.val, e2)>>)

AssignValue(cfg, key, value, i, e1, e2) ==
    AssignEvaluated(cfg, key, FieldType(key), value, i, e1, e2, Eval(value.v))

\* The outcome a, with the call c made before its calls.
After(c, a) == Outcome(a.config, a.error, <<c>> \o a.calls)

\* Lines 99-110: the attribute that field names, from the segments of the
\* split field: the walk to the owning object, then getattr of the last
\* segment.
TargetFrom(segs, owner) ==
    IF owner = "missing" THEN [kind |-> "missing", name |-> ""]
    ELSE GetAttr(owner, segs[Len(segs)])

TargetOfSegments(segs) == TargetFrom(segs, WalkPath("config", segs, 1))

TargetOf(field) == TargetOfSegments(Split(field, 46))

\* Lines 105-124, for the attribute target whose current value is current;
\* ev is what eval gives for the value when it is a str.
ApplyValueTo(cfg, ov, i, e1, e2, target, current, ev) ==
    IF target.kind = "missing"
    THEN Outcome(cfg, "AttributeError", <<>>)
    ELSE IF NeedsListParse(current, ov.value)
    THEN IF ev.out # "ok"
         THEN Outcome(cfg, "RuntimeError", <<Call("eval", i, target.name, ov.value, ev.out)>>)
         ELSE After(Call("eval", i, target.name, ov.value, "ok"),
                    AssignValue(cfg, target.name, ev.val, i, e1, e2))
    ELSE AssignValue(cfg, target.name, ov.value, i, e1, e2)

ApplyValueAt(cfg, ov, i, e1, e2, target) ==
    ApplyValueTo(cfg, ov, i, e1, e2, target,
                 IF target.kind = "field" THEN cfg[target.name] ELSE NoValue,
                 Eval(ov.value.v))

\* Lines 98-124.
ApplyValue(cfg, ov, i, e1, e2) ==
    ApplyValueAt(cfg, ov, i, e1, e2, TargetOf(ov.field))

\* Variant of LacksTemplateNames: the configuration class is not looked at.
NeverLacksTemplateNames(isPTC) == FALSE

\* Line 133: not isinstance(config, PipelineTaskConfig).
LacksTemplateNames(isPTC) == ~isPTC

\* Lines 125-137; r is what literal_eval gives for the text.
ApplyNamesParsed(cfg, isPTC, ov, i, r) ==
    IF r.out = "SyntaxError"
    THEN Outcome(cfg, "SyntaxError", <<Call("literal_eval", i, "", ov.value, r.out)>>)
    ELSE IF r.out = "ValueError" \/ r.val.t # "dict"
    THEN Outcome(cfg, "RuntimeError", <<Call("literal_eval", i, "", ov.value, r.out)>>)
    ELSE IF LacksTemplateNames(isPTC)
    THEN Outcome(cfg, "RuntimeError", <<Call("literal_eval", i, "", ov.value, r.out)>>)
    ELSE Outcome([cfg EXCEPT !.templateNames = r.val], "",
                 <<Call("literal_eval", i, "", ov.value, r.out),
                   Call("formatTemplateNames", i, "", r.val, "ok")>>)

ApplyNames(cfg, isPTC, ov, i) ==
    ApplyNamesParsed(cfg, isPTC, ov, i, LiteralEval(ov.value.v))

\* Lines 96-137: the body of the loop for one override.
ApplyOne(cfg, isPTC, ov, i, e1, e2) ==
    CASE ov.otype = "file" -> ApplyFile(cfg, ov, i)
      [] ov.otype = "value" -> ApplyValue(cfg, ov, i, e1, e2)
      [] OTHER -> ApplyNames(cfg, isPTC, ov, i)

\* Variant of Appended: the entry is put in front.
Prepended(list, entry) == <<entry>> \o list

\* Lines 48, 66, 82: self._overrides += [entry].
Appended(list, entry) == list \o <<entry>>

\* Variant of OverrideAt: the list is walked from its end.
OverrideAtReversed(list, i) == list[Len(list) + 1 - i]

\* Line 95: the i-th entry the for loop visits.
OverrideAt(list, i) == list[i]

\* Variant of AfterOverride: an exception of an override is swallowed.
AfterOverrideSwallowed(err, i) == [apc |-> "loop", pos |-> i + 1]

\* Line 95: after a body that raised, the exception leaves applyTo; else
\* the loop goes on with the next entry.
AfterOverride(err, i) ==
    IF err # "" THEN [apc |-> "raised", pos |-> i]
    ELSE [apc |-> "loop", pos |-> i + 1]

\* No applyTo of the present list has ended yet.
NoPrev ==
    [set |-> FALSE, config |-> DefaultConfig, error |-> "", apc |-> "idle",
     isPTC |-> FALSE, overrides |-> <<>>, runs |-> 0]

\* The history after an applyTo of the list ended in position a with
\* configuration cfg and error err: the first such end is kept.
Ended(cfg, err, a) ==
    IF a = "loop" THEN prev
    ELSE IF prev.set THEN [prev EXCEPT !.runs = 2]
    ELSE [set |-> TRUE, config |-> cfg, error |-> err, apc |-> a,
          isPTC |-> isPipelineTaskConfig, overrides |-> overrides, runs |-> 1]

\* The ConfigOverrides object right after __init__ (line 38) and a default
\* configuration; errs are the errors the configuration library raises if
\* the first and the second setattr of an override are not accepted (one
\* library: the same kind of error for both).
OverridesStart(errs) ==
    /\ overrides = <<>>
    /\ addCalls = <<>>
    /\ config = DefaultConfig
    /\ isPipelineTaskConfig = FALSE
    /\ apc = "idle"
    /\ pos = 0
    /\ error = ""
    /\ calls = <<>>
    /\ before = DefaultConfig
    /\ applied = <<>>
    /\ libErrors = errs
    /\ prev = NoPrev

OverridesInit == \E e \in SetAttrErrors : OverridesStart(<<e, e>>)

\* The overrides component at rest, for the specifications of the other
\* components.
OverridesInitIdle == OverridesStart(<<"TypeError", "TypeError">>)

\* Variant of ListAfterOverride: an applied entry is taken off the list.
ListAfterOverrideConsumed(list, i) == SubSeq(list, 1, i - 1) \o SubSeq(list, i + 1, Len(list))

\* Lines 95-137: the loop reads self._overrides and its entries; it assigns
\* only to its locals (field, value, obj, override) and to the configuration.
ListAfterOverride(list, i) == list

Adding(entry) ==
    /\ apc # "loop"
    /\ Len(overrides) < MaxOverrides
    /\ overrides' = Appended(overrides, entry)
    /\ addCalls' = Append(addCalls, entry)
    /\ prev' = NoPrev
    /\ UNCHANGED <<config, isPipelineTaskConfig, apc, pos, error, calls, before, applied,
                   libErrors>>

\* ConfigOverrides.addFileOverride, lines 40-48.
AddFileOverride == \E name \in FileNames : Adding(FileEntry(name))

\* ConfigOverrides.addValueOverride, lines 50-66.
AddValueOverride ==
    \E field \in OverrideFields, value \in OverrideValues : Adding(ValueEntry(field, value))

\* ConfigOverrides.addDatatypeNameSubstitution, lines 68-82.
AddDatatypeNameSubstitution == \E text \in NamesTexts : Adding(NamesEntry(text))

\* Entry of applyTo(config), line 95, with a freshly constructed default
\* configuration that is or is not a PipelineTaskConfig.
ApplyToCall ==
    /\ apc # "loop"
    /\ \E isPTC \in BOOLEAN : isPipelineTaskConfig' = isPTC
    /\ config' = DefaultConfig
    /\ before' = DefaultConfig
    /\ apc' = "loop"
    /\ pos' = 1
    /\ error' = ""
    /\ calls' = <<>>
    /\ applied' = <<>>
    /\ UNCHANGED <<overrides, addCalls, libErrors, prev>>

\* One iteration of the loop of applyTo, lines 95-137.
ApplyToStep ==
    /\ apc = "loop"
    /\ pos <= Len(overrides)
    /\ \E out \in {ApplyOne(config, isPipelineTaskConfig, OverrideAt(overrides, pos),
                            pos, libErrors[1], libErrors[2])} :
       \E after \in {AfterOverride(out.error, pos)} :
           /\ config' = out.config
           /\ before' = config
           /\ calls' = calls \o out.calls
           /\ applied' = Append(applied, OverrideAt(overrides, pos))
           /\ error' = IF out.error # "" THEN out.error ELSE error
           /\ apc' = after.apc
           /\ pos' = after.pos
           /\ prev' = Ended(out.config, out.error, after.apc)
    /\ overrides' = ListAfterOverride(overrides, pos)
    /\ UNCHANGED <<addCalls, isPipelineTaskConfig, libErrors>>

\* The loop of applyTo is over: applyTo returns.
ApplyToReturn ==
    /\ apc = "loop"
    /\ pos > Len(overrides)
    /\ apc' = "done"
    /\ prev' = Ended(config, error, "done")
    /\ UNCHANGED <<overrides, addCalls, config, isPipelineTaskConfig, pos, error,
                   calls, before, applied, libErrors>>


-----------------------------------------------------------------------------
(***************************************************************************)
(* graphTools.graph2dot                                                    *)
(***************************************************************************)

(* Strings are sequences of character codes, as in the overrides part.     *)
NameR == <<114>>                      \* "r"
NameC == <<99>>                       \* "c"
KeyV == <<118>>                       \* "v"
KeyC == <<99>>                        \* "c"
Colon == <<58>>                       \* ":"
Equals == <<61>>                      \* "="
Dot == 46                             \* "."
NewLine == <<92, 110>>                \* r'\n'
LabelPrefix == <<108, 97, 98, 101, 108, 58, 32>>  \* "label: "

\* A DatasetRef: datasetType.name and dataId, a dict given by the sequence
\* of its (key, value) items in insertion order.
Ref(name, dataId) == [name |-> name, dataId |-> dataId]

\* The DatasetRefs of the quanta of the model.  The dataIds of the third
\* and the fourth are one dict built in two orders; the value of v is the
\* int 1 in the first and the str "1" in the second.
DatasetRefs ==
    { Ref(NameR, << <<KeyV, IntV(1)>> >>),
      Ref(NameR, << <<KeyV, StrV(<<49>>)>> >>),
      Ref(NameR, << <<KeyV, IntV(1)>>, <<KeyC, IntV(2)>> >>),
      Ref(NameR, << <<KeyC, IntV(2)>>, <<KeyV, IntV(1)>> >>),
      Ref(NameC, << <<KeyV, IntV(12)>> >>) }

\* TaskDefs of the elements of qgraph: taskName and label ("" when unset).
\* The elements of a qgraph of the model have them in turn.
GraphTaskDefs ==
    << [taskName |-> <<97, 46, 84>>, label |-> <<>>],    \* "a.T", no label
       [taskName |-> <<84>>, label |-> <<120>>] >>       \* "T", label "x"

\* nodes.taskDef of the element of qgraph with index i.
TaskDefOf(i) == GraphTaskDefs[(i % Len(GraphTaskDefs)) + 1]

\* str(n) for a natural number n.
RECURSIVE Digits(_)
Digits(n) == IF n < 10 THEN <<48 + n>> ELSE Digits(n \div 10) \o <<48 + (n % 10)>>

\* str(value) for the value of a dataId item.
Str(value) == IF value.t = "int" THEN Digits(value.v[1]) ELSE value.v

\* a < b for two str (lexicographic by character code).
RECURSIVE StrLess(_, _)
StrLess(a, b) ==
    IF b = <<>> THEN FALSE
    ELSE IF a = <<>> THEN TRUE
    ELSE IF a[1] # b[1] THEN a[1] < b[1]
    ELSE StrLess(Tail(a), Tail(b))

\* sorted(dsRef.dataId.keys()), as the sequence of the items in key order.
RECURSIVE SortedItems(_)
SortedItems(items) ==
    IF items = <<>> THEN <<>>
    ELSE LET m == CHOOSE i \in DOMAIN items :
                    \A j \in DOMAIN items : ~StrLess(items[j][1], items[i][1])
         IN <<items[m]>> \o
            SortedItems(SubSeq(items, 1, m - 1) \o SubSeq(items, m + 1, Len(items)))

\* Lines 95-96 and 82-83: the parts appended for the sorted items, each
\* after the separator sep.
RECURSIVE JoinItems(_, _)
JoinItems(sorted, sep) ==
    IF sorted = <<>> THEN <<>>
    ELSE sep \o sorted[1][1] \o Equals \o Str(sorted[1][2]) \o JoinItems(Tail(sorted), sep)

\* _datasetRefId, lines 92-97.
DatasetRefId(dsRef) == dsRef.name \o JoinItems(SortedItems(dsRef.dataId), Colon)

\* Names of GraphViz nodes: "task_{taskId}_{qId}" and "dsref_{idx}"; the
\* numbers are kept as numbers (their decimal forms hold no "_").
TaskNodeName(t, q) == [p |-> "task", a |-> t, b |-> q]
DSNodeName(i) == [p |-> "dsref", a |-> i, b |-> 0]
NoNode == [p |-> "", a |-> 0, b |-> 0]

NoRef == Ref(<<>>, <<>>)

\* The statements printed: a node with its label, or an edge a -> b.  For
\* the node of a dataset, of is the DatasetRef it was rendered for.
NodeStmt(kind, name, label, dsRef) ==
    [kind |-> kind, a |-> name, b |-> NoNode, label |-> label, of |-> dsRef]
EdgeStmt(from, to) == [kind |-> "edge", a |-> from, b |-> to, label |-> <<>>, of |-> NoRef]

\* _renderTaskNode, lines 66-77: the last part of taskName, then the label
\* if it is set.
RenderTaskNode(nodeName, taskDef) ==
    LET parts == Split(taskDef.taskName, Dot)
        base == parts[Len(parts)]
    IN NodeStmt("task", nodeName,
                IF taskDef.label # <<>>
                THEN base \o NewLine \o LabelPrefix \o taskDef.label
                ELSE base,
                NoRef)

\* _renderDSNode, lines 79-90.
RenderDSNode(nodeName, dsRef) ==
    NodeStmt("ds", nodeName, dsRef.name \o JoinItems(SortedItems(dsRef.dataId), NewLine),
             dsRef)

\* Variant of MakeDSNode: a node is made for every reference.
MakeDSNodeAlways(dsRef, all, id) ==
    LET fresh == CHOOSE k \in 0..(MaxRefs + 1) :
                    \A key \in DOMAIN all : all[key] # k
    IN [node |-> DSNodeName(fresh),
        all |-> [key \in DOMAIN all \cup {id} |-> IF key = id THEN fresh ELSE all[key]],
        printed |-> <<RenderDSNode(DSNodeName(fresh), dsRef)>>]

\* Variant of MakeDSNode: the index of a new node is not counted up.
MakeDSNodeSameIndex(dsRef, all, id) ==
    IF id \in DOMAIN all
    THEN [node |-> DSNodeName(all[id]), all |-> all, printed |-> <<>>]
    ELSE [node |-> DSNodeName(0),
          all |-> [key \in DOMAIN all \cup {id} |-> IF key = id THEN 0 ELSE all[key]],
          printed |-> <<RenderDSNode(DSNodeName(0), dsRef)>>]

\* _makeDSNode, lines 99-111, for the identifying string id of dsRef: the
\* node name, the dict afterwards and what was printed.
MakeDSNode(dsRef, all, id) ==
    IF id \in DOMAIN all
    THEN [node |-> DSNodeName(all[id]), all |-> all, printed |-> <<>>]
    ELSE LET i == Cardinality(DOMAIN all)
         IN [node |-> DSNodeName(i),
             all |-> [key \in DOMAIN all \cup {id} |-> IF key = id THEN i ELSE all[key]],
             printed |-> <<RenderDSNode(DSNodeName(i), dsRef)>>]

\* Line 136.
InputEdge(nodeName, taskNodeName) == EdgeStmt(nodeName, taskNodeName)

\* Variant of OutputEdge: the edge of an output points at the task.
OutputEdgeReversed(nodeName, taskNodeName) == EdgeStmt(nodeName, taskNodeName)

\* Line 142.
OutputEdge(nodeName, taskNodeName) == EdgeStmt(taskNodeName, nodeName)

\* Lines 119 and 144: the opening and the closing line of the digraph.
Header == [kind |-> "open", a |-> NoNode, b |-> NoNode, label |-> <<>>, of |-> NoRef]
Footer == [kind |-> "close", a |-> NoNode, b |-> NoNode, label |-> <<>>, of |-> NoRef]

EmptyRefs == [k \in {} |-> 0]

GraphInit ==
    /\ gpc = "idle"
    /\ gfile = "object"
    /\ closed = FALSE
    /\ taskId = -1
    /\ qId = -1
    /\ allDatasetRefs = EmptyRefs
    /\ written = <<>>
    /\ qgraphRead = <<>>

\* Entry of graph2dot(qgraph, file), lines 113-121: a file object is written
\* to as it is; a file name is opened, which fails with OSError for a name
\* that cannot be opened.
Graph2dotCall ==
    /\ gpc \in {"idle", "done", "raised"}
    /\ \E f \in {"object", "name", "badname"} :
        /\ gfile' = f
        /\ gpc' = IF f = "badname" THEN "raised" ELSE "nodes"
        /\ written' = IF f = "badname" THEN <<>> ELSE <<Header>>
    /\ closed' = FALSE
    /\ taskId' = -1
    /\ qId' = -1
    /\ allDatasetRefs' = EmptyRefs
    /\ qgraphRead' = <<>>

\* The quanta read so far, over all elements of qgraph.
RECURSIVE QuantaRead(_)
QuantaRead(g) == IF g = <<>> THEN 0 ELSE Len(g[1].quanta) + QuantaRead(Tail(g))

\* The DatasetRefs read so far, over all quanta.
RECURSIVE RefsOfQuanta(_)
RefsOfQuanta(qs) ==
    IF qs = <<>> THEN 0
    ELSE Len(qs[1].inputs) + Len(qs[1].outputs) + RefsOfQuanta(Tail(qs))

RECURSIVE RefsRead(_)
RefsRead(g) == IF g = <<>> THEN 0 ELSE RefsOfQuanta(g[1].quanta) + RefsRead(Tail(g))

\* Line 122-124: the next element of qgraph.
NextNodes ==
    /\ gpc = "nodes"
    /\ Len(qgraphRead) < MaxSteps
    /\ qgraphRead' = Append(qgraphRead, [taskDef |-> TaskDefOf(taskId + 1), quanta |-> <<>>])
    /\ taskId' = taskId + 1
    /\ qId' = -1
    /\ gpc' = "quanta"
    /\ UNCHANGED <<gfile, closed, allDatasetRefs, written>>

\* Lines 126-130: the next quantum of the element; its task node is printed.
NextQuantumOfNodes ==
    /\ gpc = "quanta"
    /\ QuantaRead(qgraphRead) < MaxQuanta
    /\ qId' = qId + 1
    /\ written' = Append(written, RenderTaskNode(TaskNodeName(taskId, qId + 1),
                                         qgraphRead[Len(qgraphRead)].taskDef))
    /\ qgraphRead' = [qgraphRead EXCEPT ![Len(qgraphRead)].quanta =
                          Append(@, [inputs |-> <<>>, outputs |-> <<>>])]
    /\ gpc' = "inputs"
    /\ UNCHANGED <<gfile, closed, taskId, allDatasetRefs>>

\* nodes.quanta is exhausted: back to the loop over qgraph.
EndNodes ==
    /\ gpc = "quanta"
    /\ gpc' = "nodes"
    /\ UNCHANGED <<gfile, closed, taskId, qId, allDatasetRefs, written, qgraphRead>>

\* The history with dsRef added to the inputs or outputs of the last quantum.
ReadRef(g, side, dsRef) ==
    LET s == Len(g)
        q == Len(g[s].quanta)
    IN IF side = "inputs"
       THEN [g EXCEPT ![s].quanta[q].inputs = Append(@, dsRef)]
       ELSE [g EXCEPT ![s].quanta[q].outputs = Append(@, dsRef)]

\* Lines 133-136: the next DatasetRef of the values of predictedInputs.
InputRef ==
    /\ gpc = "inputs"
    /\ RefsRead(qgraphRead) < MaxRefs
    /\ \E dsRef \in DatasetRefs :
       \E made \in {MakeDSNode(dsRef, allDatasetRefs, DatasetRefId(dsRef))} :
        /\ allDatasetRefs' = made.all
        /\ written' = written \o made.printed \o <<InputEdge(made.node, TaskNodeName(taskId, qId))>>
        /\ qgraphRead' = ReadRef(qgraphRead, "inputs", dsRef)
    /\ UNCHANGED <<gpc, gfile, closed, taskId, qId>>

\* predictedInputs is exhausted: on to the outputs, line 139.
EndInputs ==
    /\ gpc = "inputs"
    /\ gpc' = "outputs"
    /\ UNCHANGED <<gfile, closed, taskId, qId, allDatasetRefs, written, qgraphRead>>

\* Lines 139-142: the next DatasetRef of the values of outputs.
OutputRef ==
    /\ gpc = "outputs"
    /\ RefsRead(qgraphRead) < MaxRefs
    /\ \E dsRef \in DatasetRefs :
       \E made \in {MakeDSNode(dsRef, allDatasetRefs, DatasetRefId(dsRef))} :
        /\ allDatasetRefs' = made.all
        /\ written' = written \o made.printed \o <<OutputEdge(made.node, TaskNodeName(taskId, qId))>>
        /\ qgraphRead' = ReadRef(qgraphRead, "outputs", dsRef)
    /\ UNCHANGED <<gpc, gfile, closed, taskId, qId>>

\* outputs is exhausted: back to the loop over nodes.quanta.
EndOutputs ==
    /\ gpc = "outputs"
    /\ gpc' = "quanta"
    /\ UNCHANGED <<gfile, closed, taskId, qId, allDatasetRefs, written, qgraphRead>>

\* Lines 144-146: qgraph is exhausted; the closing brace is printed and a
\* file that graph2dot opened is closed.
Graph2dotReturn ==
    /\ gpc = "nodes"
    /\ written' = Append(written, Footer)
    /\ closed' = (gfile = "name")
    /\ gpc' = "done"
    /\ UNCHANGED <<gfile, taskId, qId, allDatasetRefs, qgraphRead>>


-----------------------------------------------------------------------------
(***************************************************************************)
(* taskLoader and the dispatcher cmdLineActivator.CmdLineActivator         *)
(***************************************************************************)

\* taskLoader.py, lines 78-80; NoKind is the None of _task_kind.
KIND_TASK == "Task"
KIND_CMDLINETASK == "CmdLineTask"
KIND_SUPERTASK == "SuperTask"
NoKind == "None"

\* What a task name may stand for: an object that is or is not a class,
\* with the names of the task bases in its MRO, in MRO order; or nothing.
TaskObject(isclass, mro) == [found |-> TRUE, isclass |-> isclass, mro |-> mro]
NotFound == [found |-> FALSE, isclass |-> FALSE, mro |-> <<>>]

TaskObjects ==
    { TaskObject(TRUE, <<"SuperTask", "Task">>),
      TaskObject(TRUE, <<"CmdLineTask", "Task">>),
      TaskObject(TRUE, <<"SuperTask", "CmdLineTask", "Task">>),
      TaskObject(TRUE, <<"Task">>),
      TaskObject(TRUE, <<>>),
      TaskObject(FALSE, <<>>),
      NotFound }

\* `base in inspect.getmro(task_class)`.
InMro(base, obj) == \E i \in DOMAIN obj.mro : obj.mro[i] = base

\* _task_kind, taskLoader.py lines 49-71.
TaskKindOf(obj) ==
    IF ~obj.isclass THEN NoKind
    ELSE IF InMro("SuperTask", obj) THEN KIND_SUPERTASK
    ELSE IF InMro("CmdLineTask", obj) THEN KIND_CMDLINETASK
    ELSE IF InMro("Task", obj) THEN KIND_TASK
    ELSE NoKind

\* TaskLoader.loadTaskClass, taskLoader.py lines 198-257, for a name that
\* stands for obj in the packages searched: the tuple returned, or
\* ImportError when nothing with a task kind is found.
LoadTaskClass(obj) ==
    IF obj.found /\ TaskKindOf(obj) # NoKind
    THEN [error |-> "", kind |-> TaskKindOf(obj)]
    ELSE [error |-> "ImportError", kind |-> NoKind]

\* Variant of Dispatchable: every kind of task is let through.
DispatchableAnyTask(kind) == kind # NoKind

\* cmdLineActivator.py line 182.
Dispatchable(kind) == kind \in {KIND_CMDLINETASK, KIND_SUPERTASK}

\* `name in it` for the iterator it over mro that stands at position p
\* (Python 3 map object): the items up to the first match are consumed.
RECURSIVE InIterator(_, _, _)
InIterator(name, mro, p) ==
    IF p > Len(mro) THEN [found |-> FALSE, p |-> p]
    ELSE IF mro[p] = name THEN [found |-> TRUE, p |-> p + 1]
    ELSE InIterator(name, mro, p + 1)

\* activator.py lines 519-527 where map() gives a list (Python 2).
SubclassFromList(obj) ==
    IF InMro("SuperTask", obj) THEN "SuperTask"
    ELSE IF InMro("CmdLineTask", obj) THEN "CmdLineTask"
    ELSE IF InMro("SuperTask", obj) /\ InMro("CmdLineTask", obj) THEN "Both"
    ELSE "None"

\* activator.py lines 519-527 where map() gives an iterator (Python 3):
\* every test goes on where the test before it stopped.
SubclassFromIterator(obj) ==
    LET t1 == InIterator("SuperTask", obj.mro, 1)
        t2 == InIterator("CmdLineTask", obj.mro, t1.p)
        t3 == InIterator("SuperTask", obj.mro, t2.p)
        t4 == InIterator("CmdLineTask", obj.mro, t3.p)
    IN IF t1.found THEN "SuperTask"
       ELSE IF t2.found THEN "CmdLineTask"
       ELSE IF t3.found /\ t4.found THEN "Both"
       ELSE "None"

\* activator.py lines 531-564: what parse_and_run does for the subclass.
LegacyOutcome(subclass, extras) ==
    CASE subclass = "SuperTask" -> IF extras THEN "activate" ELSE "SystemExit"
      [] subclass = "CmdLineTask" -> IF extras THEN "parseAndRun" ELSE "SystemExit"
      [] OTHER -> "RuntimeError"

NoLegacy == [called |-> FALSE, obj |-> NotFound, subclass |-> "", outcome |-> ""]

\* Arguments of the command line (parser.py, makeParser).
Subcommands == {"list", "run", "show"}
Processes == {1, 2}

\* The targets makeTargetList may give, and the target lists.
Targets == {"a", "b"}
\* (lists in which no target directly follows itself)
TargetLists ==
    { tl \in UNION { [1..n -> Targets] : n \in 0..MaxTargets } :
        \A i \in DOMAIN tl : i > 1 => tl[i] # tl[i - 1] }

\* What task.execute(dataRef, **kwargs) returns for a target.
ResultOf(target) == [of |-> target]
Unset == [of |-> ""]

\* Errors: type is the class of the exception raised, orig the class named
\* in the message of an envelope ("" when it is no envelope).
\* str(exc) of the exceptions that the called code raises.
MessageOf(type) ==
    CASE type = "Exception" -> "failed"
      [] type = "TaskError" -> "task failed"
      [] type = "BaseException" -> "interrupted"
      [] OTHER -> ""

\* An exception: type is its class; orig and msg are the class name and the
\* str() that its message quotes of another exception ("" when it quotes
\* none, msg then being its own message); context is the class of the
\* exception that the interpreter attached to it together with that
\* exception's traceback ("" when it attached none).
NoError == [type |-> "", orig |-> "", msg |-> "", context |-> ""]
Error(type) == [type |-> type, orig |-> "", msg |-> MessageOf(type), context |-> ""]

\* How _precallImpl may end: normally, with a TaskError, with another
\* Exception, or with an exception that is no Exception (KeyboardInterrupt,
\* SystemExit, ...).
CallOutcomes == {"ok", "TaskError", "Exception", "BaseException"}

\* How task.execute may end; _executeSuperTask treats every Exception alike.
ExecuteOutcomes == {"ok", "Exception", "BaseException"}

\* isinstance(exc, Exception).
IsException(type) == type \in {"TaskError", "Exception"}

\* An entry of the history of a run: what happened, for which target
\* position (0 when for none), in which process, and the class of the
\* exception that the called code raised ("" when none).
EventErr(ev, i, proc, err) == [ev |-> ev, i |-> i, proc |-> proc, err |-> err]
Event(ev, i, proc) == EventErr(ev, i, proc, "")

\* Variant of EffectiveProcs: as many processes as were asked for.
EffectiveProcsAsAsked(processes, canMultiprocess) == processes

\* Lines 315-318: the number of processes used.
EffectiveProcs(processes, canMultiprocess) ==
    IF processes > 1 /\ ~canMultiprocess THEN 1 ELSE processes

\* cmdLineActivator.py line 131.
MP_TIMEOUT == 9999

\* task_args.timeout (parser.py line 302): absent, or the number given.
NoTimeout == [given |-> FALSE, value |-> 0]
Timeout(v) == [given |-> TRUE, value |-> v]
Timeouts == {NoTimeout, Timeout(-1), Timeout(0), Timeout(5)}

\* Variant of EffectiveTimeout: the timeout is used as it was given, and
\* no timeout means that get() waits without limit (0 here).
EffectiveTimeoutAsGiven(t) == IF t.given THEN t.value ELSE 0

\* Lines 325-328: the timeout handed to _MPMap.
EffectiveTimeout(t) == IF ~t.given \/ t.value <= 0 THEN MP_TIMEOUT ELSE t.value

\* Lines 324-331: the map function chosen.
MapMode(n) == IF n > 1 THEN "par" ELSE "seq"

\* Variant of PrecallImplCalls: with doraise the guarded call is made too.
PrecallImplCallsFallThrough(doraise) ==
    IF doraise THEN <<Event("precallImpl", 0, "main"), Event("precallImpl", 0, "main")>>
    ELSE <<Event("precallImpl", 0, "main")>>

\* Lines 411-415: the calls of _precallImpl that precall makes.
PrecallImplCalls(doraise) == <<Event("precallImpl", 0, "main")>>

\* Variant of PrecallReturns: a logged failure is not signalled.
PrecallReturnsTrue(outcome) == TRUE

\* Lines 416-421: the value precall returns when it returns.
PrecallReturns(outcome) == outcome = "ok"

\* Lines 411-420: whether the failure of _precallImpl leaves precall.
PrecallPropagates(doraise, outcome) ==
    outcome # "ok" /\ (doraise \/ ~IsException(outcome))

\* Variant of InvocationError: every exception is re-raised as it is.
InvocationErrorReraised(outcome, chained) ==
    IF outcome = "ok" THEN NoError ELSE Error(outcome)

\* Lines 513-522: how _executeSuperTask ends when task.execute ends with
\* outcome: an Exception is re-raised as it is; any other exception is
\* replaced by Exception("Unhandled exception: %s (%s)" % (cls.__name__,
\* exc)).  chained: the interpreter attaches the exception being handled
\* to the one raised in the handler (Python 3 does, Python 2 does not).
InvocationError(outcome, chained) ==
    CASE outcome = "ok" -> NoError
      [] IsException(outcome) -> Error(outcome)
      [] OTHER -> [type |-> "Exception", orig |-> outcome, msg |-> MessageOf(outcome),
                   context |-> IF chained THEN outcome ELSE ""]

\* Lines 517-521: the events of the handler of the exceptions that are no
\* Exception: the class, the message and traceback.format_exc() are logged.
Unhandled(outcome, i, proc) ==
    IF outcome = "ok" \/ IsException(outcome) THEN <<>>
    ELSE <<EventErr("log.warn", i, proc, outcome)>>

\* Variant of Propagates: the map goes on after an invocation that raised.
PropagatesNothing(outcome) == FALSE

\* Lines 331 and 339: nothing between the call of _executeSuperTask in
\* map() and the caller of doSuperTask handles an exception.
Propagates(outcome) == outcome # "ok"

\* Variant of SeqNext: the targets are taken from the end of the list.
SeqNextReversed(count, n) == n - count

\* Line 331, list(map(func, iterable)): the position of the target taken
\* after count targets were taken.
SeqNext(count, n) == count + 1

\* Variant of StoreResult: results are kept in the order of completion.
StoreResultOnCompletion(slots, i, r, count) == [slots EXCEPT ![count + 1] = r]

\* Lines 114-115, pool.map_async(...).get(): the result of the item at
\* position i is the i-th item of the list returned; count results were
\* stored before.
StoreResult(slots, i, r, count) == [slots EXCEPT ![i] = r]

NoArgs ==
    [subcommand |-> "list", taskname |-> FALSE, do_help |-> FALSE, obj |-> NotFound,
     doraise |-> FALSE, processes |-> 1, canMultiprocess |-> FALSE]

NoOutcome == [how |-> "none", value |-> "", error |-> NoError]
ReturnValue(v) == [how |-> "return", value |-> v, error |-> NoError]
Raise(e) == [how |-> "raise", value |-> "", error |-> e]

DispatchInit ==
    /\ dpc = "idle"
    /\ dargs = NoArgs
    /\ taskKind = NoKind
    /\ numProc = 1
    /\ mapMode = "none"
    /\ targetList = <<>>
    /\ running = {}
    /\ ended = {}
    /\ failures = <<>>
    /\ results = <<>>
    /\ pool = "none"
    /\ doutcome = NoOutcome
    /\ events = <<>>
    /\ legacy = NoLegacy
    /\ timeout = 0

\* parse_and_run of activator.py, lines 516-564, for a task name that
\* stands for a class: the class is classified by name and run or refused.
LegacyParseAndRun ==
    /\ dpc = "idle"
    /\ ~legacy.called
    /\ \E obj \in { o \in TaskObjects : o.found /\ o.isclass }, py3 \in BOOLEAN,
          extras \in BOOLEAN :
        \E subclass \in {IF py3 THEN SubclassFromIterator(obj) ELSE SubclassFromList(obj)} :
            legacy' = [called |-> TRUE, obj |-> obj, subclass |-> subclass,
                       outcome |-> LegacyOutcome(subclass, extras)]
    /\ UNCHANGED <<dpc, dargs, taskKind, numProc, mapMode, targetList, running, ended,
                   failures, results, pool, doutcome, events, timeout>>

\* Entry of parseAndRun, lines 149-162: the command line is parsed.
ParseAndRunCall ==
    /\ dpc = "idle"
    /\ ~legacy.called
    /\ \E sub \in Subcommands, name \in BOOLEAN, help \in BOOLEAN, obj \in TaskObjects,
          dr \in BOOLEAN, procs \in Processes, mp \in BOOLEAN :
        dargs' = [subcommand |-> sub, taskname |-> name, do_help |-> help, obj |-> obj,
                  doraise |-> dr, processes |-> procs, canMultiprocess |-> mp]
    /\ dpc' = "parsed"
    /\ taskKind' = NoKind
    /\ numProc' = 1
    /\ mapMode' = "none"
    /\ targetList' = <<>>
    /\ running' = {}
    /\ ended' = {}
    /\ failures' = <<>>
    /\ results' = <<>>
    /\ pool' = "none"
    /\ doutcome' = NoOutcome
    /\ events' = <<>>
    /\ timeout' = 0
    /\ UNCHANGED legacy

Finish(o) ==
    /\ doutcome' = o
    /\ dpc' = IF o.how = "raise" THEN "raised" ELSE "returned"

\* Lines 164-166 and doList, lines 222-276: the list is printed, or the
\* packages cannot be imported and 2 is returned.
DoList ==
    /\ dpc = "parsed"
    /\ dargs.subcommand = "list"
    /\ \E imported \in BOOLEAN : Finish(ReturnValue(IF imported THEN "None" ELSE "2"))
    /\ events' = Append(events, Event("doList", 0, "main"))
    /\ UNCHANGED <<dargs, taskKind, numProc, mapMode, targetList, running, ended,
                   failures, results, pool, legacy, timeout>>

\* Lines 170-175: no task name; help is printed, or the parser's error()
\* ends the process.
NoTaskName ==
    /\ dpc = "parsed"
    /\ dargs.subcommand # "list"
    /\ ~dargs.taskname
    /\ Finish(IF dargs.do_help THEN ReturnValue("None") ELSE Raise(Error("SystemExit")))
    /\ UNCHANGED <<dargs, taskKind, numProc, mapMode, targetList, running, ended,
                   failures, results, pool, events, legacy, timeout>>

\* Lines 178-192: the task class is loaded and the call is dispatched on
\* its kind.
Dispatch ==
    /\ dpc = "parsed"
    /\ dargs.subcommand # "list"
    /\ dargs.taskname
    /\ \E l \in {LoadTaskClass(dargs.obj)} :
        /\ taskKind' = l.kind
        /\ IF l.error # ""
           THEN Finish(Raise(Error(l.error))) /\ UNCHANGED events
           ELSE IF ~Dispatchable(l.kind)
           THEN Finish(ReturnValue("2")) /\ UNCHANGED events
           ELSE IF l.kind = KIND_CMDLINETASK
           THEN /\ dpc' = "doCmdLineTask"
                /\ events' = Append(events, Event("doCmdLineTask", 0, "main"))
                /\ UNCHANGED doutcome
           ELSE IF l.kind = KIND_SUPERTASK
           THEN /\ dpc' = "doSuperTask"
                /\ events' = Append(events, Event("doSuperTask", 0, "main"))
                /\ UNCHANGED doutcome
           ELSE Finish(ReturnValue("None")) /\ UNCHANGED events
    /\ UNCHANGED <<dargs, numProc, mapMode, targetList, running, ended, failures,
                   results, pool, legacy, timeout>>

\* doCmdLineTask, lines 538-558: help, or the command line is handed to
\* the parseAndRun of the task class.
DoCmdLineTask ==
    /\ dpc = "doCmdLineTask"
    /\ Finish(ReturnValue("None"))
    /\ events' = IF dargs.do_help THEN events
                 ELSE Append(events, Event("task_class.parseAndRun", 0, "main"))
    /\ UNCHANGED <<dargs, taskKind, numProc, mapMode, targetList, running, ended,
                   failures, results, pool, legacy, timeout>>

\* doSuperTask, lines 289-318: help and "show" return; for "run" the
\* command line is parsed by the task parser (which ends the process on a
\* wrong command line), the task is made and the number of processes set.
DoSuperTask ==
    /\ dpc = "doSuperTask"
    /\ IF dargs.do_help \/ dargs.subcommand = "show"
       THEN /\ Finish(ReturnValue("None"))
            /\ UNCHANGED <<numProc, events>>
       ELSE \E parsed \in BOOLEAN :
            IF ~parsed
            THEN /\ Finish(Raise(Error("SystemExit")))
                 /\ UNCHANGED <<numProc, events>>
            ELSE /\ numProc' = EffectiveProcs(dargs.processes, dargs.canMultiprocess)
                 /\ events' = Append(events, Event("makeSuperTask", 0, "main"))
                 /\ dpc' = "precall"
                 /\ UNCHANGED doutcome
    /\ UNCHANGED <<dargs, taskKind, mapMode, targetList, running, ended, failures,
                   results, pool, legacy, timeout>>

\* Line 321 and precall, lines 411-421.
Precall ==
    /\ dpc = "precall"
    /\ \E outcome \in CallOutcomes :
        /\ events' = events \o PrecallImplCalls(dargs.doraise)
                        \o <<IF outcome = "ok" THEN Event("precallDone", 0, "main")
                             ELSE EventErr("precallFailed", 0, "main", outcome)>>
                        \o (IF outcome # "ok" /\ ~PrecallPropagates(dargs.doraise, outcome)
                            THEN <<Event("log.fatal", 0, "main")>> ELSE <<>>)
        /\ IF PrecallPropagates(dargs.doraise, outcome)
           THEN Finish(Raise(Error(outcome)))
           ELSE IF PrecallReturns(outcome)
           THEN dpc' = "targets" /\ UNCHANGED doutcome
           ELSE Finish(ReturnValue("None"))
    /\ UNCHANGED <<dargs, taskKind, numProc, mapMode, targetList, running, ended,
                   failures, results, pool, legacy, timeout>>

\* Lines 324-342: the map function is chosen and the target list made; an
\* empty list is only warned about; else the map function is called, which
\* in parallel mode makes the pool and hands it all targets (lines 113-114).
MakeTargetList ==
    /\ dpc = "targets"
    /\ mapMode' = MapMode(numProc)
    /\ \E tl \in TargetLists :
        /\ targetList' = tl
        /\ IF tl = <<>>
           THEN /\ Finish(ReturnValue("None"))
                /\ events' = Append(events, Event("makeTargetList", 0, "main"))
                /\ UNCHANGED <<pool, results>>
           ELSE /\ dpc' = MapMode(numProc)
                /\ UNCHANGED doutcome
                /\ pool' = IF MapMode(numProc) = "par" THEN "running" ELSE "none"
                /\ results' = IF MapMode(numProc) = "par"
                              THEN [i \in 1..Len(tl) |-> Unset] ELSE <<>>
                /\ events' = events \o <<Event("makeTargetList", 0, "main")>>
                                \o (IF MapMode(numProc) = "par"
                                    THEN <<Event("pool", 0, "main")>> ELSE <<>>)
    /\ \E t \in Timeouts :
        timeout' = IF MapMode(numProc) = "par" THEN EffectiveTimeout(t) ELSE 0
    /\ UNCHANGED <<dargs, taskKind, numProc, running, ended, failures, legacy>>

\* Sequential map, line 331: _executeSuperTask is called for the next
\* target.
SeqStart ==
    /\ dpc = "seq"
    /\ running = {}
    /\ Cardinality(ended) < Len(targetList)
    /\ \E i \in {SeqNext(Cardinality(ended), Len(targetList))} :
        /\ running' = {i}
        /\ events' = Append(events, Event("start", i, "main"))
    /\ UNCHANGED <<dpc, dargs, taskKind, numProc, mapMode, targetList, ended, failures,
                   results, pool, doutcome, legacy, timeout>>

\* Sequential map: the call returns and its result is appended, or it
\* raises and the exception leaves doSuperTask.
SeqEnd ==
    /\ dpc = "seq"
    /\ \E i \in running, outcome \in ExecuteOutcomes :
        /\ running' = {}
        /\ ended' = ended \cup {i}
        /\ IF outcome = "ok"
           THEN /\ results' = Append(results, ResultOf(targetList[i]))
                /\ events' = Append(events, Event("end", i, "main"))
                /\ UNCHANGED <<dpc, doutcome, failures>>
           ELSE \E chained \in (IF IsException(outcome) THEN {FALSE} ELSE BOOLEAN) :
                /\ failures' = Append(failures,
                                      [i |-> i, error |-> InvocationError(outcome, chained)])
                /\ events' = events \o Unhandled(outcome, i, "main")
                                \o <<EventErr("raise", i, "main", outcome)>>
                /\ IF Propagates(outcome)
                   THEN Finish(Raise(InvocationError(outcome, chained)))
                   ELSE UNCHANGED <<dpc, doutcome>>
                /\ UNCHANGED results
    /\ UNCHANGED <<dargs, taskKind, numProc, mapMode, targetList, pool, legacy, timeout>>

\* Sequential map: all targets are done; doSuperTask returns.
SeqReturn ==
    /\ dpc = "seq"
    /\ running = {}
    /\ Cardinality(ended) = Len(targetList)
    /\ Finish(ReturnValue("None"))
    /\ UNCHANGED <<dargs, taskKind, numProc, mapMode, targetList, running, ended,
                   failures, results, pool, events, legacy, timeout>>

\* A worker of the pool takes a target nobody took yet; at most numProc
\* workers run at a time (line 113).
WorkerStart ==
    /\ pool = "running"
    /\ Cardinality(running) < numProc
    /\ \E i \in DOMAIN targetList \ (running \cup ended) :
        /\ running' = running \cup {i}
        /\ events' = Append(events, Event("start", i, "worker"))
    /\ UNCHANGED <<dpc, dargs, taskKind, numProc, mapMode, targetList, ended, failures,
                   results, pool, doutcome, legacy, timeout>>

\* A worker finishes its call of _executeSuperTask: the result is stored
\* for the item's position, or the failure is kept.
WorkerEnd ==
    /\ pool = "running"
    /\ \E i \in running, outcome \in ExecuteOutcomes :
        /\ running' = running \ {i}
        /\ ended' = ended \cup {i}
        /\ IF outcome = "ok"
           THEN /\ results' = StoreResult(results, i, ResultOf(targetList[i]),
                                          Cardinality(ended) - Len(failures))
                /\ events' = Append(events, Event("end", i, "worker"))
                /\ UNCHANGED failures
           ELSE \E chained \in (IF IsException(outcome) THEN {FALSE} ELSE BOOLEAN) :
                /\ failures' = Append(failures,
                                      [i |-> i, error |-> InvocationError(outcome, chained)])
                /\ events' = events \o Unhandled(outcome, i, "worker")
                                \o <<EventErr("raise", i, "worker", outcome)>>
                /\ UNCHANGED results
    /\ UNCHANGED <<dpc, dargs, taskKind, numProc, mapMode, targetList, pool, doutcome,
                   legacy, timeout>>

\* Line 115, result.get(timeout): all items are done without a failure and
\* the list of results is returned.
GetReturns ==
    /\ dpc = "par"
    /\ ended = DOMAIN targetList
    /\ failures = <<>>
    /\ Finish(ReturnValue("None"))
    /\ events' = Append(events, Event("get", 0, "main"))
    /\ UNCHANGED <<dargs, taskKind, numProc, mapMode, targetList, running, ended,
                   failures, results, pool, legacy, timeout>>

\* Line 115: an item failed; get raises the first failure, in some
\* versions of multiprocessing at once, in others when all items are done.
GetRaises ==
    /\ dpc = "par"
    /\ failures # <<>>
    /\ Finish(Raise(failures[1].error))
    /\ events' = Append(events, Event("getRaised", 0, "main"))
    /\ UNCHANGED <<dargs, taskKind, numProc, mapMode, targetList, running, ended,
                   failures, results, pool, legacy, timeout>>

\* Line 115: the timeout expires while items are not done; get raises
\* multiprocessing.TimeoutError.  The pool is left as it is.
GetTimesOut ==
    /\ dpc = "par"
    /\ timeout > 0
    /\ ended # DOMAIN targetList
    /\ Finish(Raise(Error("TimeoutError")))
    /\ events' = Append(events, Event("timeout", 0, "main"))
    /\ UNCHANGED <<dargs, taskKind, numProc, mapMode, targetList, running, ended,
                   failures, results, pool, legacy, timeout>>


-----------------------------------------------------------------------------
(***************************************************************************)
(* cmdLineActivator.CmdLineActivator._makeArgumentList                     *)
(***************************************************************************)

\* None, for the options that were not given.
None == "<None>"

\* An override as parser.py makes it (_config_override, _config_file).
Override(type, value) == [type |-> type, value |-> value]
OverrideArgs == {Override("override", "a=1"), Override("override", "b=2"),
                 Override("file", "f.py"), Override("file", "g.py")}

\* args.config_overrides: the overrides of -c and -C in command-line order
\* (_AppendFlattenAction appends to the one list).
OverrideLists == UNION { [1..n -> OverrideArgs] : n \in 0..MaxOverrides }

\* The parsed command line, as far as _makeArgumentList reads it.
ArgumentSets ==
    [inputRepo : {None, "in"}, calibRepo : {None, "calib"},
     outputRepo : {None, "out"}, rerun : {None, "rr"},
     doraise : BOOLEAN, processes : Processes,
     config_overrides : OverrideLists,
     show : {<<>>, <<"config">>},
     subcommand : {"run", "show"}]
ExtraArgs == {<<>>, <<"--id">>}
NoArguments ==
    [inputRepo |-> None, calibRepo |-> None, outputRepo |-> None, rerun |-> None,
     doraise |-> FALSE, processes |-> 1, config_overrides |-> <<>>, show |-> <<>>,
     subcommand |-> "run"]

\* "{}".format(n) for the numbers of the model.
Format(n) == CASE n = 1 -> "1" [] n = 2 -> "2" [] OTHER -> "?"

\* An element of argv: the strings it is put together from.
Arg(s) == <<s>>

\* Lines 631-632.
InputRepoArgs(a) == IF a.inputRepo # None THEN <<Arg(a.inputRepo)>> ELSE <<>>

\* Lines 633-634.
CalibRepoArgs(a) ==
    IF a.calibRepo # None THEN <<Arg("--calib"), Arg(a.inputRepo)>> ELSE <<>>

\* Lines 635-638.
OutputRepoArgs(a) ==
    (IF a.outputRepo # None THEN <<Arg("--output"), Arg(a.outputRepo)>> ELSE <<>>)
    \o (IF a.rerun # None THEN <<Arg("--rerun"), Arg(a.rerun)>> ELSE <<>>)

\* Lines 657-662.
ControlArgs(a) ==
    (IF a.doraise THEN <<Arg("--doraise")>> ELSE <<>>)
    \o (IF a.processes # 1 THEN <<<<"--processes=", Format(a.processes)>>>> ELSE <<>>)

\* Lines 666-670: the loop over args.config_overrides.
RECURSIVE OverrideArgv(_)
OverrideArgv(list) ==
    IF list = <<>> THEN <<>>
    ELSE (CASE list[1].type = "override" -> <<Arg("--config"), Arg(list[1].value)>>
            [] list[1].type = "file" -> <<Arg("--configfigfile"), Arg(list[1].value)>>
            [] OTHER -> <<>>)
         \o OverrideArgv(Tail(list))

\* Lines 672-677.
ShowArgs(a) ==
    IF a.show = <<>> THEN <<>>
    ELSE <<Arg("--show")>> \o [i \in DOMAIN a.show |-> Arg(a.show[i])]
         \o (IF a.subcommand = "run" THEN <<Arg("run")>> ELSE <<>>)

\* _makeArgumentList, lines 630-682.
MakeArgumentListOf(a, extra) ==
    InputRepoArgs(a) \o CalibRepoArgs(a) \o OutputRepoArgs(a) \o ControlArgs(a)
    \o OverrideArgv(a.config_overrides) \o ShowArgs(a)
    \o [i \in DOMAIN extra |-> Arg(extra[i])]

ArgsInitIdle ==
    /\ cmdArgs = NoArguments
    /\ extraArgs = <<>>
    /\ argv = <<>>
    /\ argvMade = FALSE

ArgsInit ==
    /\ cmdArgs \in ArgumentSets
    /\ extraArgs \in ExtraArgs
    /\ argv = <<>>
    /\ argvMade = FALSE

\* The call _makeArgumentList(args, extra_args).
MakeArgumentList ==
    /\ ~argvMade
    /\ argv' = MakeArgumentListOf(cmdArgs, extraArgs)
    /\ argvMade' = TRUE
    /\ UNCHANGED <<cmdArgs, extraArgs>>


-----------------------------------------------------------------------------
(***************************************************************************)
(* ExecutionPlanBuilder.buildPlan (specification, section 4.2)             *)
(***************************************************************************)

\* The tasks a pipeline is made of and the pipelines.
PlanTasks == {"T", "U"}
PlanPipelines == UNION { [1..n -> PlanTasks] : n \in 0..MaxTasks }

\* The quanta a task may declare: the builder reads their inputs and
\* outputs only.  The datasets are "raw", "calexp" and "src".
PlanQuanta ==
    { [inputs |-> {"raw"}, outputs |-> {"calexp"}],
      [inputs |-> {"calexp"}, outputs |-> {"src"}] }
QuantaLists == UNION { [1..n -> PlanQuanta] : n \in 0..MaxPlanQuanta }

\* availableInputs and requestedOutputs as the caller gives them; at most
\* one of them is non-empty.
PlanPools == {{}, {"raw"}, {"src"}, {"raw", "src"}}
PlanRequests ==
    { r \in [availableInputs : PlanPools, requestedOutputs : PlanPools] :
        r.availableInputs = {} \/ r.requestedOutputs = {} }

\* Outputs empty: forward mode; outputs non-empty: backward mode.
PlanMode(requestedOutputs) == IF requestedOutputs = {} THEN "forward" ELSE "backward"

\* Variant of MergeOutputs: nothing is merged into the pool.
MergeNothing(p, quanta) == p

\* Forward mode: the outputs of every quantum are merged into inputsPool.
MergeOutputs(p, quanta) == p \cup UNION { quanta[k].outputs : k \in DOMAIN quanta }

\* Backward mode: the inputs of every quantum are merged into outputsPool.
MergeInputs(p, quanta) == p \cup UNION { quanta[k].inputs : k \in DOMAIN quanta }

\* A step of the plan; position is kept to tell the steps of equal tasks
\* apart.
ExecutionStep(position, task, quanta) ==
    [position |-> position, task |-> task, quanta |-> quanta]

\* Variant of InsertStep: the step is put at the end of the list.
InsertStepAtEnd(steps, s) == Append(steps, s)

\* Backward mode: the step is inserted at the front of the result list.
InsertStep(steps, s) == <<s>> \o steps

\* The pool is a copy of the caller's set, which the merges leave alone.
PoolIsCopy == TRUE

PlanStart(pl, r) ==
    /\ bpc = "idle"
    /\ planPipeline = pl
    /\ request = r
    /\ callerSets = r
    /\ planPool = {}
    /\ plan = <<>>
    /\ handed = <<>>

PlanInitIdle == PlanStart(<<>>, [availableInputs |-> {}, requestedOutputs |-> {}])
PlanInit == \E pl \in PlanPipelines, r \in PlanRequests : PlanStart(pl, r)

\* buildPlan(pipeline, availableInputs, requestedOutputs): the pool is made
\* from the set of the mode.
BuildPlanCall ==
    /\ bpc = "idle"
    /\ bpc' = PlanMode(request.requestedOutputs)
    /\ planPool' = IF PlanMode(request.requestedOutputs) = "forward"
                   THEN request.availableInputs ELSE request.requestedOutputs
    /\ UNCHANGED <<planPipeline, request, callerSets, plan, handed>>

\* Forward mode, the next task in pipeline order: it declares its quanta
\* for the pool, their outputs are merged and the step is appended.
PlanForwardStep ==
    /\ bpc = "forward"
    /\ Len(plan) < Len(planPipeline)
    /\ \E quanta \in QuantaLists :
       \E position \in {Len(plan) + 1}, merged \in {MergeOutputs(planPool, quanta)} :
        /\ handed' = Append(handed, [position |-> position, inputs |-> planPool,
                                     outputs |-> {}, quanta |-> quanta])
        /\ planPool' = merged
        /\ callerSets' = IF PoolIsCopy THEN callerSets
                         ELSE [callerSets EXCEPT !.availableInputs = merged]
        /\ plan' = Append(plan, ExecutionStep(position, planPipeline[position], quanta))
    /\ UNCHANGED <<bpc, planPipeline, request>>

\* Backward mode, the next task in reverse pipeline order: it declares its
\* quanta for the pool, their inputs are merged and the step is inserted.
PlanBackwardStep ==
    /\ bpc = "backward"
    /\ Len(plan) < Len(planPipeline)
    /\ \E quanta \in QuantaLists :
       \E position \in {Len(planPipeline) - Len(plan)},
          merged \in {MergeInputs(planPool, quanta)} :
        /\ handed' = Append(handed, [position |-> position, inputs |-> {},
                                     outputs |-> planPool, quanta |-> quanta])
        /\ planPool' = merged
        /\ callerSets' = IF PoolIsCopy THEN callerSets
                         ELSE [callerSets EXCEPT !.requestedOutputs = merged]
        /\ plan' = InsertStep(plan, ExecutionStep(position, planPipeline[position], quanta))
    /\ UNCHANGED <<bpc, planPipeline, request>>

\* All tasks are done: the plan is returned.
BuildPlanReturn ==
    /\ bpc \in {"forward", "backward"}
    /\ Len(plan) = Len(planPipeline)
    /\ bpc' = "done"
    /\ UNCHANGED <<planPipeline, request, callerSets, planPool, plan, handed>>


-----------------------------------------------------------------------------
(* Specifications.                                                         *)

InitPipeline == PipeInit /\ QuantumInit /\ OverridesInitIdle /\ GraphInit /\ DispatchInit /\ ArgsInitIdle /\ PlanInitIdle
NextPipeline ==
    \/ CallIsPipelineOrdered /\ UNCHANGED <<quantumVars, overrideVars, graphVars, dispatchVars, argVars, planVars>>
    \/ ProducerStep /\ UNCHANGED <<quantumVars, overrideVars, graphVars, dispatchVars, argVars, planVars>>
    \/ StartConsumers /\ UNCHANGED <<quantumVars, overrideVars, graphVars, dispatchVars, argVars, planVars>>
    \/ ConsumerStep /\ UNCHANGED <<quantumVars, overrideVars, graphVars, dispatchVars, argVars, planVars>>
    \/ ReturnTrue /\ UNCHANGED <<quantumVars, overrideVars, graphVars, dispatchVars, argVars, planVars>>
SpecPipeline == InitPipeline /\ [][NextPipeline]_vars

InitQuantum == PipeInitIdle /\ QuantumInit /\ OverridesInitIdle /\ GraphInit /\ DispatchInit /\ ArgsInitIdle /\ PlanInitIdle
NextQuantum ==
    \/ QuantumConstruct /\ UNCHANGED <<pipeVars, overrideVars, graphVars, dispatchVars, argVars, planVars>>
SpecQuantum == InitQuantum /\ [][NextQuantum]_vars

InitOverrides == PipeInitIdle /\ QuantumInit /\ OverridesInit /\ GraphInit /\ DispatchInit /\ ArgsInitIdle /\ PlanInitIdle
NextOverrides ==
    \/ AddFileOverride /\ UNCHANGED <<pipeVars, quantumVars, graphVars, dispatchVars, argVars, planVars>>
    \/ AddValueOverride /\ UNCHANGED <<pipeVars, quantumVars, graphVars, dispatchVars, argVars, planVars>>
    \/ AddDatatypeNameSubstitution /\ UNCHANGED <<pipeVars, quantumVars, graphVars, dispatchVars, argVars, planVars>>
    \/ ApplyToCall /\ UNCHANGED <<pipeVars, quantumVars, graphVars, dispatchVars, argVars, planVars>>
    \/ ApplyToStep /\ UNCHANGED <<pipeVars, quantumVars, graphVars, dispatchVars, argVars, planVars>>
    \/ ApplyToReturn /\ UNCHANGED <<pipeVars, quantumVars, graphVars, dispatchVars, argVars, planVars>>
SpecOverrides == InitOverrides /\ [][NextOverrides]_vars

InitGraph == PipeInitIdle /\ QuantumInit /\ OverridesInitIdle /\ GraphInit /\ DispatchInit /\ ArgsInitIdle /\ PlanInitIdle
NextGraph ==
    \/ Graph2dotCall /\ UNCHANGED <<pipeVars, quantumVars, overrideVars, dispatchVars, argVars, planVars>>
    \/ NextNodes /\ UNCHANGED <<pipeVars, quantumVars, overrideVars, dispatchVars, argVars, planVars>>
    \/ NextQuantumOfNodes /\ UNCHANGED <<pipeVars, quantumVars, overrideVars, dispatchVars, argVars, planVars>>
    \/ EndNodes /\ UNCHANGED <<pipeVars, quantumVars, overrideVars, dispatchVars, argVars, planVars>>
    \/ InputRef /\ UNCHANGED <<pipeVars, quantumVars, overrideVars, dispatchVars, argVars, planVars>>
    \/ EndInputs /\ UNCHANGED <<pipeVars, quantumVars, overrideVars, dispatchVars, argVars, planVars>>
    \/ OutputRef /\ UNCHANGED <<pipeVars, quantumVars, overrideVars, dispatchVars, argVars, planVars>>
    \/ EndOutputs /\ UNCHANGED <<pipeVars, quantumVars, overrideVars, dispatchVars, argVars, planVars>>
    \/ Graph2dotReturn /\ UNCHANGED <<pipeVars, quantumVars, overrideVars, dispatchVars, argVars, planVars>>
SpecGraph == InitGraph /\ [][NextGraph]_vars

InitDispatch == PipeInitIdle /\ QuantumInit /\ OverridesInitIdle /\ GraphInit /\ DispatchInit /\ ArgsInitIdle /\ PlanInitIdle
NextDispatch ==
    \/ LegacyParseAndRun /\ UNCHANGED <<pipeVars, quantumVars, overrideVars, graphVars, argVars, planVars>>
    \/ ParseAndRunCall /\ UNCHANGED <<pipeVars, quantumVars, overrideVars, graphVars, argVars, planVars>>
    \/ DoList /\ UNCHANGED <<pipeVars, quantumVars, overrideVars, graphVars, argVars, planVars>>
    \/ NoTaskName /\ UNCHANGED <<pipeVars, quantumVars, overrideVars, graphVars, argVars, planVars>>
    \/ Dispatch /\ UNCHANGED <<pipeVars, quantumVars, overrideVars, graphVars, argVars, planVars>>
    \/ DoCmdLineTask /\ UNCHANGED <<pipeVars, quantumVars, overrideVars, graphVars, argVars, planVars>>
    \/ DoSuperTask /\ UNCHANGED <<pipeVars, quantumVars, overrideVars, graphVars, argVars, planVars>>
    \/ Precall /\ UNCHANGED <<pipeVars, quantumVars, overrideVars, graphVars, argVars, planVars>>
    \/ MakeTargetList /\ UNCHANGED <<pipeVars, quantumVars, overrideVars, graphVars, argVars, planVars>>
    \/ SeqStart /\ UNCHANGED <<pipeVars, quantumVars, overrideVars, graphVars, argVars, planVars>>
    \/ SeqEnd /\ UNCHANGED <<pipeVars, quantumVars, overrideVars, graphVars, argVars, planVars>>
    \/ SeqReturn /\ UNCHANGED <<pipeVars, quantumVars, overrideVars, graphVars, argVars, planVars>>
    \/ WorkerStart /\ UNCHANGED <<pipeVars, quantumVars, overrideVars, graphVars, argVars, planVars>>
    \/ WorkerEnd /\ UNCHANGED <<pipeVars, quantumVars, overrideVars, graphVars, argVars, planVars>>
    \/ GetReturns /\ UNCHANGED <<pipeVars, quantumVars, overrideVars, graphVars, argVars, planVars>>
    \/ GetRaises /\ UNCHANGED <<pipeVars, quantumVars, overrideVars, graphVars, argVars, planVars>>
    \/ GetTimesOut /\ UNCHANGED <<pipeVars, quantumVars, overrideVars, graphVars, argVars, planVars>>
SpecDispatch == InitDispatch /\ [][NextDispatch]_vars

InitArgs ==
    /\ PipeInitIdle /\ QuantumInit /\ OverridesInitIdle /\ GraphInit /\ DispatchInit
    /\ ArgsInit /\ PlanInitIdle
NextArgs ==
    \/ MakeArgumentList
          /\ UNCHANGED <<pipeVars, quantumVars, overrideVars, graphVars, dispatchVars, planVars>>
SpecArgs == InitArgs /\ [][NextArgs]_vars

InitPlan ==
    /\ PipeInitIdle /\ QuantumInit /\ OverridesInitIdle /\ GraphInit /\ DispatchInit
    /\ ArgsInitIdle /\ PlanInit
NotPlan == UNCHANGED <<pipeVars, quantumVars, overrideVars, graphVars, dispatchVars, argVars>>
NextPlan ==
    \/ BuildPlanCall /\ NotPlan
    \/ PlanForwardStep /\ NotPlan
    \/ PlanBackwardStep /\ NotPlan
    \/ BuildPlanReturn /\ NotPlan
SpecPlan == InitPlan /\ [][NextPlan]_vars

\* result.get(timeout) does not block for ever: it returns when the results
\* are there, raises when an item failed, and raises when the timeout, a
\* finite number of seconds, is over.  Nothing is assumed of the workers.
OtherIdle == UNCHANGED <<pipeVars, quantumVars, overrideVars, graphVars, argVars, planVars>>
SpecDispatchFair ==
    /\ SpecDispatch
    /\ WF_vars(GetReturns /\ OtherIdle)
    /\ WF_vars(GetRaises /\ OtherIdle)
    /\ WF_vars(GetTimesOut /\ OtherIdle)

-----------------------------------------------------------------------------
(***************************************************************************)
(* Properties of isPipelineOrdered (checked under SpecPipeline).           *)
(***************************************************************************)

Range(seq) == { seq[k] : k \in DOMAIN seq }

AllResolved(p) == \A i \in DOMAIN p : p[i].taskClass

\* The places (task position, output field) that declare name D as output.
ProducerPlaces(p, D) ==
    { <<i, k>> \in (DOMAIN p) \X (1..Len(OutputFieldNames)) :
        k \in DOMAIN p[i].outputs /\ p[i].outputs[k] = D }

DuplicateProducer(p) ==
    \E D \in DatasetTypeNames : Cardinality(ProducerPlaces(p, D)) >= 2

\* Every consumer of a produced name sits strictly after the name's producer.
ConsumersAfterProducers(p) ==
    \A i, j \in DOMAIN p : \A D \in DatasetTypeNames :
        (D \in Range(p[i].outputs) /\ D \in Range(p[j].inputs)) => i < j

\* A task that has the same name as its input and as its output.
SelfConsumer(p) ==
    \E i \in DOMAIN p : Range(p[i].inputs) \cap Range(p[i].outputs) # {}

\* C1: for a pipeline with at most one producer per dataset-type name and
\* all task classes resolved, isPipelineOrdered returns, and returns True
\* exactly when every consumer of a produced name sits strictly after that
\* name's producer; inputs that nobody produces never make it False.
C1_OrderedIffConsumersAfterProducers ==
    (pc = "done" /\ AllResolved(pipelineAtCall) /\ ~DuplicateProducer(pipelineAtCall))
        => /\ result.type \in {"True", "False"}
           /\ (result.type = "True") <=> ConsumersAfterProducers(pipelineAtCall)

\* A two-task call that returned True: the second task consumes what the
\* first produces, and the first consumes a name that nobody produces.
C1_Witness ==
    /\ pc = "done"
    /\ result.type = "True"
    /\ AllResolved(pipelineAtCall)
    /\ Len(pipelineAtCall) = 2
    /\ pipelineAtCall[1].outputs = <<"A">>
    /\ pipelineAtCall[1].inputs = <<"B">>
    /\ pipelineAtCall[2].inputs = <<"A">>
    /\ pipelineAtCall[2].outputs = <<>>

\* C2 (as stated): whenever two places declare the same output name the
\* call ends with ValueError.
C2_DuplicateRaisesValueError ==
    (pc = "done" /\ DuplicateProducer(pipelineAtCall)) => result.type = "ValueError"

\* C2 (amended): whenever two places declare the same output name the call
\* raises and never returns True or False, also for a mis-ordered pipeline;
\* the error is the ValueError, except that it is the factory's ImportError
\* when a task class that was unresolved at the call could not be loaded;
\* without such a task, or without a factory, it is the ValueError.
C2_DuplicateAlwaysRaises ==
    (pc = "done" /\ DuplicateProducer(pipelineAtCall))
        => /\ result.type \in {"ValueError", "ImportError"}
           /\ result.type = "ImportError"
                => /\ taskFactory
                   /\ loadCalls # <<>>
                   /\ ~pipelineAtCall[loadCalls[Len(loadCalls)] + 1].taskClass
           /\ (AllResolved(pipelineAtCall) => result = Raised("ValueError", "duplicate"))

\* A mis-ordered pipeline (the consumer of A first) in which both output
\* fields of the second task are named A ended with the duplicate error.
C2_Witness ==
    /\ pc = "done"
    /\ result = Raised("ValueError", "duplicate")
    /\ Len(pipelineAtCall) = 2
    /\ pipelineAtCall[1].inputs = <<"A">>
    /\ pipelineAtCall[2].outputs = <<"A", "A">>
    /\ ~ConsumersAfterProducers(pipelineAtCall)

\* The first position whose task class is unresolved, 0 when there is none.
FirstUnresolved(p) ==
    IF AllResolved(p) THEN 0
    ELSE CHOOSE i \in DOMAIN p :
            ~p[i].taskClass /\ \A j \in 1..(i - 1) : p[j].taskClass

\* C3: a call without a task factory on a pipeline that has an unresolved
\* TaskDef ends with ValueError, never with False (or True), whatever the
\* order of the tasks; when the tasks before the first unresolved one have
\* no duplicate producer, the error is the one for the missing factory.
C3_UnresolvedWithoutFactoryRaises ==
    (pc = "done" /\ ~taskFactory /\ ~AllResolved(pipelineAtCall))
        => /\ result.type = "ValueError"
           /\ ~DuplicateProducer(SubSeq(pipelineAtCall, 1, FirstUnresolved(pipelineAtCall) - 1))
                => result = Raised("ValueError", "factory")

\* A mis-ordered pipeline whose second TaskDef is unresolved, called
\* without a factory, ended with the missing-factory error.
C3_Witness ==
    /\ pc = "done"
    /\ ~taskFactory
    /\ result = Raised("ValueError", "factory")
    /\ Len(pipelineAtCall) = 2
    /\ pipelineAtCall[1].taskClass
    /\ ~pipelineAtCall[2].taskClass
    /\ ~ConsumersAfterProducers(pipelineAtCall)

\* C4 (as stated): a task with the same name as input and as output makes
\* the call return False.
C4_SelfConsumerReturnsFalse ==
    (pc = "done" /\ SelfConsumer(pipelineAtCall)) => result.type = "False"

\* C4 (amended): with a task that has the same name as input and as output,
\* at any position, the call never returns True; it returns False whenever
\* the first loop raises nothing, which is the case when all task classes
\* are resolved and no name has two producers.
C4_SelfConsumerNeverOrdered ==
    (pc = "done" /\ SelfConsumer(pipelineAtCall))
        => /\ result.type # "True"
           /\ (AllResolved(pipelineAtCall) /\ ~DuplicateProducer(pipelineAtCall))
                => result.type = "False"
           /\ result.type = "False" => ~DuplicateProducer(pipelineAtCall)

\* The self-consuming task in the last position of an otherwise ordered
\* pipeline: the call returned False.
C4_Witness ==
    /\ pc = "done"
    /\ result.type = "False"
    /\ Len(pipelineAtCall) = 2
    /\ pipelineAtCall[1] = [taskClass |-> TRUE, inputs |-> <<>>, outputs |-> <<"A">>]
    /\ pipelineAtCall[2] = [taskClass |-> TRUE, inputs |-> <<"B">>, outputs |-> <<"B">>]

-----------------------------------------------------------------------------
(***************************************************************************)
(* Properties of Quantum.__init__ (checked under SpecQuantum).             *)
(***************************************************************************)

\* C5: the construction of a Quantum fails with ValueError exactly when
\* director is set (not None and, as the code tests its truth value, not
\* the empty str) and is a key of neither inputs nor outputs; so every
\* constructed Quantum has director unset or among the keys of inputs and
\* outputs, and a director that is a key of inputs or of outputs is accepted.
C5_DirectorInvariant ==
    LET keys == quantum.inputs \cup quantum.outputs
        set == quantum.director # <<>> /\ quantum.director # <<"">>
    IN /\ qresult = "ValueError" <=> (set /\ quantum.director[1] \notin keys)
       /\ qresult = "constructed" => (~set \/ quantum.director[1] \in keys)
       /\ qresult # "none"
            => /\ (quantum.director = <<>> => qresult = "constructed")
               /\ (set /\ quantum.director[1] \in quantum.inputs => qresult = "constructed")
               /\ (set /\ quantum.director[1] \in quantum.outputs => qresult = "constructed")

\* Quantum(inputs={"raw"}, outputs={"calexp"}, director="calexp") was
\* constructed: the director is a key of outputs only.
C5_Witness ==
    /\ qresult = "constructed"
    /\ quantum.inputs = {"raw"}
    /\ quantum.outputs = {"calexp"}
    /\ quantum.director = <<"calexp">>

\* Quantum(inputs={"raw"}, outputs={"calexp"}, director="missing") raised.
C5_WitnessRaised ==
    /\ qresult = "ValueError"
    /\ quantum.inputs = {"raw"}
    /\ quantum.outputs = {"calexp"}
    /\ quantum.director = <<"missing">>

-----------------------------------------------------------------------------
(***************************************************************************)
(* Properties of ConfigOverrides (checked under SpecOverrides).            *)
(***************************************************************************)

ConfigKeys == {"n", "l", "o", "sm"}

\* The field an entry sets ("" when it sets none or its path is wrong).
TargetKey(ov) ==
    CASE ov.otype = "file" -> IF ov.name = "good.py" THEN "n" ELSE ""
      [] ov.otype = "value" -> TargetOf(ov.field).name
      [] OTHER -> ""

\* The values an entry may leave in the field it sets: what the file
\* assigns; for a value override the value or, for a text, what it denotes.
AssignedBy(ov) ==
    IF ov.otype = "file" THEN {IntV(1)}
    ELSE LET ftype == FieldType(TargetKey(ov))
         IN {Stored(ftype, ov.value)} \cup
            (IF ov.value.t = "str" /\ Eval(ov.value.v).out = "ok"
             THEN {Stored(ftype, Eval(ov.value.v).val)} ELSE {})

Last(S) == CHOOSE i \in S : \A j \in S : j <= i

CallsOf(i) == SelectSeq(calls, LAMBDA c : c.idx = i)
CallsOfOp(i, op) == SelectSeq(calls, LAMBDA c : c.idx = i /\ c.op = op)

C6_State ==
    /\ overrides = addCalls
    /\ Len(applied) <= Len(overrides)
    /\ applied = SubSeq(overrides, 1, Len(applied))
    /\ apc = "done"
         => \A key \in ConfigKeys :
                LET setters == { i \in DOMAIN applied : TargetKey(applied[i]) = key }
                IN setters # {} => config[key] \in AssignedBy(applied[Last(setters)])

C6_Step ==
    /\ Len(overrides') >= Len(overrides)
    /\ SubSeq(overrides', 1, Len(overrides)) = overrides
    /\ Len(overrides') <= Len(overrides) + 1
    /\ (apc = "loop" /\ apc' = "done") => applied = overrides
    /\ (apc = "loop" /\ apc' # "raised") => Len(applied') = pos' - 1

\* C6: the override list holds one entry per add* call, in call order, and
\* only ever grows at its end by one entry; applyTo visits the entries in
\* list order and returns only after the last one, and after an applyTo
\* that returned every field holds what the last entry that sets it assigns.
C6_AppendOnlyAppliedInOrder == [](C6_State) /\ [][C6_Step]_vars

\* applyTo returned for the list [file good.py (n = 1), n := 5]: n is 5.
C6_Witness ==
    /\ apc = "done"
    /\ overrides = <<FileEntry("good.py"), ValueEntry(FieldN, IntV(5))>>
    /\ config.n = IntV(5)

\* C7: when an override fails, applyTo ends with that error at that
\* override: the override is the last one visited, no call belongs to a
\* later one, and the configuration is as the overrides before it left it.
C7_StopsAtFirstFailure ==
    /\ (error # "") <=> (apc = "raised")
    /\ apc = "raised"
         => /\ Len(applied) = pos
            /\ pos <= Len(overrides)
            /\ \A k \in DOMAIN calls : calls[k].idx <= pos
            /\ config = before
    /\ \A k \in DOMAIN calls :
         (calls[k].out # "ok" /\ calls[k].op # "setattr" /\ calls[k].op # "eval")
            => apc = "raised" /\ calls[k].idx = pos

\* applyTo on [n := 5, file missing.py] failed at the file, and n is still
\* 5.
C7_Witness ==
    /\ apc = "raised"
    /\ pos = 2
    /\ error = "IOError"
    /\ overrides = <<ValueEntry(FieldN, IntV(5)), FileEntry("missing.py")>>
    /\ config.n = IntV(5)

\* The entry the loop visited last, when it is a value override with a
\* text for the field key.
LastIsTextFor(key) ==
    /\ applied # <<>>
    /\ applied[Len(applied)].otype = "value"
    /\ applied[Len(applied)].value.t = "str"
    /\ TargetKey(applied[Len(applied)]) = key

ParsedSequenceAssigned(key) ==
    LastIsTextFor(key) =>
        LET ov == applied[Len(applied)]
            sets == CallsOfOp(Len(applied), "setattr")
            p == Eval(ov.value.v)
        IN /\ \A k \in DOMAIN sets : sets[k].val # ov.value
           /\ p.out # "ok"
                => /\ error = "RuntimeError"
                   /\ apc = "raised"
                   /\ config[key] = before[key]
                   /\ sets = <<>>
           /\ (p.out = "ok" /\ error = "") => config[key] = p.val

\* C8: a text applied to a list-typed field is parsed first: the setattr
\* is never given the text itself, a text that cannot be parsed ends
\* applyTo with RuntimeError and leaves the field as it was, and a
\* successful override leaves the parsed value in the field.
C8_ListFieldGetsParsedSequence ==
    \A key \in ConfigKeys : FieldType(key) = "list" => ParsedSequenceAssigned(key)

\* The part of C8 that the code keeps: list fields whose value was a List
\* when the override started.
C8_ListValuedFieldGetsParsedSequence ==
    \A key \in ConfigKeys :
        (FieldType(key) = "list" /\ before[key].t = "list") => ParsedSequenceAssigned(key)

\* l := "[1,2]" was applied: l is the list [1, 2].
C8_Witness ==
    /\ apc = "done"
    /\ overrides = <<ValueEntry(FieldL, StrV(TextList))>>
    /\ config.l = ListV(<<1, 2>>)

\* C9: for a value override on a field that is not list-typed the first
\* call is the setattr of the value as given; the text is evaluated only
\* after that setattr raised TypeError and only for a str value; a second
\* setattr is made only after that evaluation, with its result, and there
\* is no third; a call that failed and was not followed by a retry ends
\* applyTo with its error.
C9_DirectThenRetryOnce ==
    \A i \in DOMAIN applied :
        (applied[i].otype = "value" /\ TargetKey(applied[i]) \in ConfigKeys
            /\ FieldType(TargetKey(applied[i])) # "list")
        => LET ov == applied[i]
               cs == CallsOf(i)
               sets == CallsOfOp(i, "setattr")
               evals == CallsOfOp(i, "eval")
           IN /\ Len(cs) >= 1
              /\ cs[1].op = "setattr"
              /\ cs[1].val = ov.value
              /\ Len(sets) <= 2
              /\ Len(evals) <= 1
              /\ Len(evals) = 1 <=> (cs[1].out = "TypeError" /\ ov.value.t = "str")
              /\ Len(sets) = 2 <=> (Len(evals) = 1 /\ evals[1].out = "ok")
              /\ Len(sets) = 2 => (cs[3] = sets[2] /\ sets[2].val = Eval(ov.value.v).val)
              /\ cs[Len(cs)].out # "ok"
                    => /\ apc = "raised"
                       /\ i = Len(applied)
                       /\ error = cs[Len(cs)].out
              /\ cs[Len(cs)].out = "ok" => (i < Len(applied) \/ error = "")

\* n := "7" was applied: the setattr of the text raised TypeError, the text
\* was evaluated and the second setattr stored 7.
C9_Witness ==
    /\ apc = "done"
    /\ overrides = <<ValueEntry(FieldN, StrV(Text7))>>
    /\ Len(calls) = 3
    /\ calls[1].out = "TypeError"
    /\ calls[2].op = "eval"
    /\ calls[3] = Call("setattr", 1, "n", IntV(7), "ok")
    /\ config.n = IntV(7)

\* A retry that failed: n := "[1,2]" raised at the second setattr.
C9_WitnessRetryFailed ==
    /\ apc = "raised"
    /\ overrides = <<ValueEntry(FieldN, StrV(TextList))>>
    /\ Len(calls) = 3
    /\ calls[3].out = error

\* C10: formatTemplateNames is called for a name substitution exactly when
\* its text is a literal dict and the configuration is a
\* PipelineTaskConfig, once and with that dict; in every other case
\* applyTo ends with an error at that override (RuntimeError, or the
\* SyntaxError of literal_eval for a text that is no expression) and the
\* template names are untouched.
C10_NameSubstitution ==
    \A i \in DOMAIN applied :
        applied[i].otype = "namesDict"
        => LET r == LiteralEval(applied[i].value.v)
               fmt == CallsOfOp(i, "formatTemplateNames")
           IN /\ Len(fmt) <= 1
              /\ Len(fmt) = 1 <=> (r.out = "ok" /\ r.val.t = "dict" /\ isPipelineTaskConfig)
              /\ Len(fmt) = 1 => fmt[1].val = r.val
              /\ Len(fmt) = 0
                    => /\ apc = "raised"
                       /\ i = Len(applied)
                       /\ error = IF r.out = "SyntaxError" THEN "SyntaxError" ELSE "RuntimeError"
                       /\ config.templateNames = before.templateNames

\* The substitution "{1:2}" was applied to a PipelineTaskConfig.
C10_Witness ==
    /\ apc = "done"
    /\ isPipelineTaskConfig
    /\ overrides = <<NamesEntry(TextDict)>>
    /\ config.templateNames = DictV(<<1, 2>>)
    /\ calls[Len(calls)].op = "formatTemplateNames"

\* The same substitution on a configuration that is no PipelineTaskConfig
\* raised and formatTemplateNames was not called.
C10_WitnessNoCapability ==
    /\ apc = "raised"
    /\ ~isPipelineTaskConfig
    /\ overrides = <<NamesEntry(TextDict)>>
    /\ error = "RuntimeError"

\* A second applyTo of the list, on a fresh default configuration of the
\* same class as the first one's, has ended.
AppliedTwice ==
    /\ prev.runs = 2
    /\ apc \in {"done", "raised"}
    /\ prev.isPTC = isPipelineTaskConfig

C11_State ==
    /\ prev.set => prev.overrides = overrides
    /\ AppliedTwice
         => /\ config = prev.config
            /\ error = prev.error
            /\ apc = prev.apc

C11_Step ==
    (apc = "loop" \/ apc' = "loop") => overrides' = overrides

\* C11: no step of applyTo changes the override list (entries, order and
\* stored values stay), and two applications of one ConfigOverrides object
\* to two fresh default configurations of the same class end alike: the
\* same final configuration and the same outcome.
C11_ApplyToKeepsListAndRepeats == [](C11_State) /\ [][C11_Step]_vars

\* The list [n := "7", l := "[1,2]"] was applied a second time, and both
\* applications left n = 7 and l = [1, 2].
C11_Witness ==
    /\ AppliedTwice
    /\ apc = "done"
    /\ overrides = <<ValueEntry(FieldN, StrV(Text7)), ValueEntry(FieldL, StrV(TextList))>>
    /\ config.n = IntV(7)
    /\ config.l = ListV(<<1, 2>>)
    /\ prev.config = config

-----------------------------------------------------------------------------
(***************************************************************************)
(* Properties of graph2dot (checked under SpecGraph).                      *)
(***************************************************************************)

\* Two DatasetRefs are the same: the same datasetType.name and the same
\* dataId entries (the same keys with the same values).
SameRef(r1, r2) == r1.name = r2.name /\ Range(r1.dataId) = Range(r2.dataId)

\* The quanta read, each with the name of its task node.
QuantaOf(g) ==
    { [task |-> TaskNodeName(s - 1, q - 1), quantum |-> g[s].quanta[q]] :
        <<s, q>> \in { <<s, q>> \in (DOMAIN g) \X (1..MaxQuanta + 1) :
                            q \in DOMAIN g[s].quanta } }

\* The DatasetRefs read, as inputs or outputs of any quantum.
RefsOf(g) ==
    UNION { Range(x.quantum.inputs) \cup Range(x.quantum.outputs) : x \in QuantaOf(g) }

\* The node that stands for a DatasetRef in the edges.
NodeFor(dsRef) == DSNodeName(allDatasetRefs[DatasetRefId(dsRef)])

DSStmts == { i \in DOMAIN written : written[i].kind = "ds" }

\* C12: in one export every DatasetRef read so far has exactly one dataset
\* node: one node statement bears its node name, no second node was
\* rendered for the same ref, and refs with the same type name and dataId
\* entries have the same node, whatever quanta or tasks they belong to; two
\* quanta that share an input ref have an edge each from that one node into
\* their two distinct task nodes.
C12_OneNodePerDatasetRef ==
    LET idsRead == { [ref |-> r, id |-> DatasetRefId(r)] : r \in RefsOf(qgraphRead) }
        quantaRead == QuantaOf(qgraphRead)
        dsWritten == DSStmts
        stmtsWritten == Range(written)
    IN /\ \A x \in idsRead :
            /\ x.id \in DOMAIN allDatasetRefs
            /\ Cardinality({ i \in dsWritten :
                               written[i].a = DSNodeName(allDatasetRefs[x.id]) }) = 1
            /\ Cardinality({ i \in dsWritten : SameRef(written[i].of, x.ref) }) <= 1
            /\ \A y \in idsRead : SameRef(x.ref, y.ref) => y.id = x.id
       /\ \A x, y \in quantaRead :
            x.task # y.task
               => \A r \in Range(x.quantum.inputs) \cap Range(y.quantum.inputs) :
                     LET nodeOfR == NodeFor(r)
                     IN /\ EdgeStmt(nodeOfR, x.task) \in stmtsWritten
                        /\ EdgeStmt(nodeOfR, y.task) \in stmtsWritten
                        /\ EdgeStmt(nodeOfR, x.task) # EdgeStmt(nodeOfR, y.task)

\* The quanta of two tasks have the same input ref r{v: 1}: one dataset
\* node and two edges from it were printed.
C12_Witness ==
    /\ gpc = "done"
    /\ Len(qgraphRead) = 2
    /\ \A s \in 1..2 :
         /\ Len(qgraphRead[s].quanta) = 1
         /\ qgraphRead[s].quanta[1].inputs = <<Ref(NameR, << <<KeyV, IntV(1)>> >>)>>
         /\ qgraphRead[s].quanta[1].outputs = <<>>
    /\ Cardinality(DSStmts) = 1
    /\ EdgeStmt(DSNodeName(0), TaskNodeName(0, 0)) \in Range(written)
    /\ EdgeStmt(DSNodeName(0), TaskNodeName(1, 0)) \in Range(written)

\* C13 (as stated): two DatasetRefs read in one export have the same
\* dataset node if and only if they have the same datasetType.name and the
\* same dataId entries.
C13_SameNodeIffSameRef ==
    \A r1, r2 \in RefsOf(qgraphRead) :
        (NodeFor(r1) = NodeFor(r2)) <=> SameRef(r1, r2)

\* The part of C13 that the code keeps: refs that are the same have the
\* same node (whatever the order of their dataId items), and refs with
\* different nodes differ in the type name or in a dataId entry.
C13_SameRefSameNode ==
    \A r1, r2 \in RefsOf(qgraphRead) :
        SameRef(r1, r2) => NodeFor(r1) = NodeFor(r2)

\* The statements of written of the kinds in kinds, in the order printed.
StmtsOfKind(kinds) == SelectSeq(written, LAMBDA st : st.kind \in kinds)

\* The task node and the edges graph2dot is to print for one quantum.
ExpectedOfQuantum(taskDef, t, q) ==
    <<RenderTaskNode(t, taskDef)>>
    \o [k \in 1..Len(q.inputs) |-> EdgeStmt(NodeFor(q.inputs[k]), t)]
    \o [k \in 1..Len(q.outputs) |-> EdgeStmt(t, NodeFor(q.outputs[k]))]

RECURSIVE ExpectedOfQuanta(_, _, _, _)
ExpectedOfQuanta(taskDef, qs, s, j) ==
    IF j > Len(qs) THEN <<>>
    ELSE ExpectedOfQuantum(taskDef, TaskNodeName(s - 1, j - 1), qs[j])
         \o ExpectedOfQuanta(taskDef, qs, s, j + 1)

RECURSIVE ExpectedOfGraph(_, _)
ExpectedOfGraph(g, s) ==
    IF s > Len(g) THEN <<>>
    ELSE ExpectedOfQuanta(g[s].taskDef, g[s].quanta, s, 1) \o ExpectedOfGraph(g, s + 1)

\* C14: the task nodes and edges of a finished export are, in order: for
\* each element of qgraph and each of its quanta one task node, then one
\* edge dataset -> task for each ref of its inputs, then one edge
\* task -> dataset for each ref of its outputs; the task nodes have
\* distinct names, and there is no other edge.
C14_TaskNodesAndEdges ==
    gpc = "done"
        => /\ StmtsOfKind({"task", "edge"}) = ExpectedOfGraph(qgraphRead, 1)
           /\ Len(StmtsOfKind({"task"})) = Cardinality(QuantaOf(qgraphRead))
           /\ Cardinality({ st.a : st \in Range(StmtsOfKind({"task"})) })
                = Len(StmtsOfKind({"task"}))

\* One quantum with input r{v: 1} and output c{v: 12}: the export is the
\* task node, the node of the input with its edge into the task, the node
\* of the output with the edge from the task.
C14_Witness ==
    /\ gpc = "done"
    /\ Len(qgraphRead) = 1
    /\ Len(qgraphRead[1].quanta) = 1
    /\ qgraphRead[1].quanta[1].inputs = <<Ref(NameR, << <<KeyV, IntV(1)>> >>)>>
    /\ qgraphRead[1].quanta[1].outputs = <<Ref(NameC, << <<KeyV, IntV(12)>> >>)>>
    /\ StmtsOfKind({"task", "edge"})
         = <<RenderTaskNode(TaskNodeName(0, 0), TaskDefOf(0)),
             EdgeStmt(DSNodeName(0), TaskNodeName(0, 0)),
             EdgeStmt(TaskNodeName(0, 0), DSNodeName(1))>>
    /\ Len(written) = 7

-----------------------------------------------------------------------------
(* Claims about the dispatcher.                                            *)

Ambiguous(obj) == InMro("SuperTask", obj) /\ InMro("CmdLineTask", obj)
Happened(evs) == \E k \in DOMAIN events : events[k].ev \in evs
Resolved == dpc \notin {"idle", "parsed"} /\ dargs.taskname /\ dargs.subcommand # "list"

\* C15 (as the specification states it): a class with both SuperTask and
\* CmdLineTask in its ancestry is classified as ambiguous, dispatch fails
\* with an error and neither the pre-call hook nor any invocation runs; in
\* parseAndRun of cmdLineActivator.py and in parse_and_run of activator.py.
C15_AmbiguousClassNeverRuns ==
    /\ (Resolved /\ dargs.obj.isclass /\ Ambiguous(dargs.obj)) =>
          /\ taskKind \notin {KIND_SUPERTASK, KIND_CMDLINETASK}
          /\ dpc = "raised"
          /\ ~Happened({"doSuperTask", "doCmdLineTask", "precallImpl", "start"})
    /\ (legacy.called /\ Ambiguous(legacy.obj)) =>
          /\ legacy.subclass = "Both"
          /\ legacy.outcome = "RuntimeError"

Undispatchable(obj) ==
    ~obj.found \/ ~obj.isclass \/ (~InMro("SuperTask", obj) /\ ~InMro("CmdLineTask", obj))
FailureOutcome ==
    \/ doutcome = ReturnValue("2")
    \/ doutcome = Raise(Error("ImportError"))

\* C16: the class loaded gets exactly one of the kinds, and a task name
\* that stands for a plain Task, for a class that is no task, for something
\* that is no class or for nothing is never dispatched: parseAndRun ends
\* with the failure value 2 or with ImportError, and the pre-call hook,
\* doSuperTask, doCmdLineTask and the invocations never run.
C16_UndispatchableNeverRuns ==
    /\ taskKind \in {KIND_SUPERTASK, KIND_CMDLINETASK, KIND_TASK, NoKind}
    /\ Resolved =>
          /\ taskKind = KIND_SUPERTASK <=> (dargs.obj.isclass /\ InMro("SuperTask", dargs.obj))
          /\ taskKind = NoKind <=>
                (~dargs.obj.isclass \/ \A b \in {"SuperTask", "CmdLineTask", "Task"} :
                                            ~InMro(b, dargs.obj))
    /\ (Resolved /\ Undispatchable(dargs.obj)) =>
          /\ FailureOutcome
          /\ dpc \in {"returned", "raised"}
          /\ ~Happened({"doSuperTask", "doCmdLineTask", "task_class.parseAndRun",
                        "makeSuperTask", "precallImpl", "makeTargetList", "start"})

C16_Witness ==
    /\ Resolved
    /\ dargs.obj = TaskObject(TRUE, <<"Task">>)
    /\ dargs.subcommand = "run"
    /\ taskKind = KIND_TASK
    /\ doutcome = ReturnValue("2")

Positions(evs) == { k \in DOMAIN events : events[k].ev \in evs }
Before(evs1, evs2) == \A k \in Positions(evs1), l \in Positions(evs2) : k < l
RunEnded == dpc \in {"returned", "raised"}

PrecallFailure == { events[k].err : k \in Positions({"precallFailed"}) }
NothingExecuted == ~Happened({"makeTargetList", "pool", "start", "end", "raise"})

\* C18: when _precallImpl raises an Exception, with doraise set the
\* exception leaves the dispatcher and no invocation is executed; with
\* doraise unset the failure is logged, precall returns False, doSuperTask
\* returns without raising and no invocation is executed.  precall returns
\* True (the target list is built) only when _precallImpl raised nothing.
C18_PrecallFailurePolicy ==
    /\ \A err \in PrecallFailure : IsException(err) =>
          /\ NothingExecuted
          /\ dargs.doraise => (dpc = "raised" /\ doutcome = Raise(Error(err)))
          /\ ~dargs.doraise =>
                /\ dpc = "returned"
                /\ doutcome = ReturnValue("None")
                /\ Happened({"log.fatal"})
    /\ (dpc \in {"targets", "seq", "par"} \/ ~NothingExecuted) =>
          (PrecallFailure = {} /\ Happened({"precallDone"}))

C18_Witness ==
    /\ ~dargs.doraise
    /\ PrecallFailure = {"Exception"}
    /\ dpc = "returned"

\* The history restricted to its entries of the kinds evs.
RECURSIVE Only(_, _)
Only(evs, log) ==
    IF log = <<>> THEN <<>>
    ELSE IF log[1].ev \in evs THEN <<log[1]>> \o Only(evs, Tail(log))
    ELSE Only(evs, Tail(log))

\* C19: in sequential mode, as long as no invocation has raised, the
\* invocations are those of the targets in target-list order, each target
\* once, all in the dispatcher process; an invocation starts only when the
\* one before it has returned; the results collected are those of the
\* targets in target-list order, and when the run has ended every target
\* was invoked.
C19_SequentialOrder ==
    (mapMode = "seq" /\ ~Happened({"raise"})) =>
        LET invoked == Only({"start", "end"}, events)
            starts == Only({"start"}, events)
        IN /\ Len(starts) <= Len(targetList)
           /\ \A j \in DOMAIN starts : starts[j].i = j /\ starts[j].proc = "main"
           /\ \A k \in DOMAIN invoked :
                 /\ invoked[k].i = (k + 1) \div 2
                 /\ invoked[k].ev = IF k % 2 = 1 THEN "start" ELSE "end"
           /\ Len(results) = Len(invoked) \div 2
           /\ \A j \in DOMAIN results : results[j] = ResultOf(targetList[j])
           /\ RunEnded => Len(results) = Len(targetList)

C19_Witness ==
    /\ mapMode = "seq"
    /\ dpc = "returned"
    /\ targetList = <<"b", "a">>
    /\ results = <<ResultOf("b"), ResultOf("a")>>

StartsOf(i) == { k \in Positions({"start"}) : events[k].i = i }
EndsOf(i) == { k \in Positions({"end"}) : events[k].i = i }

\* C20: in parallel mode every target is started at most once, by a worker,
\* and at most numProc invocations run at a time; when get() has returned
\* (all invocations succeeded within the timeout) every target was executed
\* exactly once and the i-th result collected is the result of the i-th
\* target, in whatever order the workers took and finished the targets.
C20_ParallelResultOrder ==
    mapMode = "par" =>
        /\ \A i \in DOMAIN targetList :
              /\ Cardinality(StartsOf(i)) <= 1
              /\ \A k \in StartsOf(i) : events[k].proc = "worker"
        /\ Cardinality(running) <= numProc
        /\ dpc = "returned" =>
              /\ Len(results) = Len(targetList)
              /\ \A i \in DOMAIN targetList :
                    /\ results[i] = ResultOf(targetList[i])
                    /\ Cardinality(StartsOf(i)) = 1
                    /\ Cardinality(EndsOf(i)) = 1

C20_Witness ==
    /\ mapMode = "par"
    /\ dpc = "returned"
    /\ targetList = <<"a", "b">>
    /\ results = <<ResultOf("a"), ResultOf("b")>>
    /\ \E k \in EndsOf(2), l \in EndsOf(1) : k < l

\* C21: in parallel mode the timeout handed to the pool is a positive
\* number of seconds (the one given, or MP_TIMEOUT), so the wait of the
\* dispatcher ends: when an invocation has not finished as the timeout
\* expires, get() raises TimeoutError, which leaves doSuperTask, whether or
\* not the workers under way ever finish.
C21_TimeoutBoundsWait ==
    /\ [](mapMode = "par" => (timeout > 0 /\ timeout \in {MP_TIMEOUT, 5}))
    /\ [](Happened({"timeout"}) =>
            (dpc = "raised" /\ doutcome = Raise(Error("TimeoutError"))))
    /\ [][(dpc = "par" /\ dpc' = "raised" /\ ended # DOMAIN targetList /\ failures = <<>>)
            => doutcome' = Raise(Error("TimeoutError"))]_vars
    /\ (dpc = "par") ~> RunEnded

C21_Witness ==
    /\ Happened({"timeout"})
    /\ dpc = "raised"
    /\ running # {}
    /\ timeout = MP_TIMEOUT

RaiseOf(i) == { k \in Positions({"raise"}) : events[k].i = i }
Recognized(e) == IsException(e.type)

C29_SequentialWhenCannotMultiprocess ==
    /\ (Happened({"makeSuperTask"}) /\ dargs.processes > 1 /\ ~dargs.canMultiprocess) =>
          /\ numProc = 1
          /\ mapMode \in {"none", "seq"}
          /\ pool = "none"
          /\ timeout = 0
          /\ ~Happened({"pool", "get", "getRaised", "timeout"})
          /\ \A k \in Positions({"start", "end", "raise"}) : events[k].proc = "main"
          /\ Cardinality(running) <= 1
    /\ (pool = "running" \/ Happened({"pool"})) =>
          /\ numProc > 1
          /\ mapMode = "par"
          /\ dargs.canMultiprocess
    /\ mapMode = "seq" => numProc = 1
    /\ mapMode = "par" => numProc > 1

C29_Witness ==
    /\ dargs.processes = 2
    /\ ~dargs.canMultiprocess
    /\ mapMode = "seq"
    /\ dpc = "returned"
    /\ Len(results) = 2

\* C30: in sequential mode, when the invocation of target k raises, the
\* exception leaves doSuperTask, no target after k is ever invoked, and
\* the targets before k were invoked once each, in list order, and have
\* returned.
C30_SequentialFailureStops ==
    (mapMode = "seq" /\ Happened({"raise"})) =>
        LET k == failures[1].i
            starts == Only({"start"}, events)
        IN /\ Len(failures) = 1
           /\ dpc = "raised"
           /\ doutcome = Raise(failures[1].error)
           /\ running = {}
           /\ Len(starts) = k
           /\ \A j \in DOMAIN starts : starts[j].i = j
           /\ \A i \in DOMAIN targetList :
                 /\ i < k => (Cardinality(StartsOf(i)) = 1 /\ Cardinality(EndsOf(i)) = 1)
                 /\ i > k => StartsOf(i) = {}
           /\ Len(results) = k - 1
           /\ \A j \in DOMAIN results : results[j] = ResultOf(targetList[j])
           /\ events[Len(events)].ev = "raise"

C30_Witness ==
    /\ mapMode = "seq"
    /\ Len(targetList) = 2
    /\ Len(failures) = 1
    /\ failures[1].i = 1
    /\ dpc = "raised"

-----------------------------------------------------------------------------
(* Further claims about isPipelineOrdered.                                 *)

\* The TaskDef but for its taskClass; inputs and outputs are fixed by the
\* TaskDef's name and config.
SameButClass(t1, t2) == t1.inputs = t2.inputs /\ t1.outputs = t2.outputs

C25_State ==
    /\ Len(pipeline) = Len(pipelineAtCall)
    /\ \A i \in DOMAIN pipeline :
          /\ SameButClass(pipeline[i], pipelineAtCall[i])
          /\ pipelineAtCall[i].taskClass => pipeline[i].taskClass
          /\ pipeline[i] # pipelineAtCall[i] => \E k \in DOMAIN loadCalls : loadCalls[k] = i - 1
    /\ \A k, l \in DOMAIN loadCalls : loadCalls[k] = loadCalls[l] => k = l
    /\ \A k \in DOMAIN loadCalls : ~pipelineAtCall[loadCalls[k] + 1].taskClass
    /\ (pc = "done" /\ result.type \in {"True", "False"}) =>
          \A i \in DOMAIN pipeline : pipeline[i].taskClass
    /\ lastResult.type \in {"True", "False"} =>
          /\ loadCalls = <<>>
          /\ pipeline = pipelineAtCall
          /\ pc = "done" => result = lastResult

C25_Step ==
    /\ Len(pipeline') = Len(pipeline)
    /\ \A i \in DOMAIN pipeline :
          \/ pipeline'[i] = pipeline[i]
          \/ /\ ~pipeline[i].taskClass
             /\ pipeline'[i] = [pipeline[i] EXCEPT !.taskClass = TRUE]
             /\ loadCalls' = Append(loadCalls, i - 1)

\* C25: isPipelineOrdered changes nothing in the pipeline but the taskClass
\* of TaskDefs that had none: their number, order, names and configs stay;
\* loadTaskClass is called at most once for a TaskDef without class and
\* never for one with a class; after a call that returned True or False
\* every TaskDef has its class, and the next call on that pipeline calls
\* loadTaskClass for none and returns the same.
C25_OnlyTaskClassChanges == [](C25_State) /\ [][C25_Step]_vars

C25_Witness ==
    /\ pc = "done"
    /\ lastResult.type = "False"
    /\ result.type = "False"
    /\ Len(pipeline) = 2
    /\ taskFactory

-----------------------------------------------------------------------------
(* Claims about _makeArgumentList.                                         *)

\* The options of the task parser for the overrides, in the order given.
RECURSIVE ExpectedOverrideArgv(_)
ExpectedOverrideArgv(list) ==
    IF list = <<>> THEN <<>>
    ELSE <<Arg(IF list[1].type = "file" THEN "--configfile" ELSE "--config"),
           Arg(list[1].value)>>
         \o ExpectedOverrideArgv(Tail(list))

Holds(list, part) ==
    \E i \in 1..(Len(list) + 1) :
        /\ i + Len(part) - 1 <= Len(list)
        /\ SubSeq(list, i, i + Len(part) - 1) = part

\* C26 (as the specification states it): argv carries the overrides in
\* their command-line order, a value override as "--config" and its value,
\* a file override as "--configfile" and its path.
C26_OverridesInOrder ==
    argvMade => Holds(argv, ExpectedOverrideArgv(cmdArgs.config_overrides))

Follows(list, option, value) ==
    /\ \E i \in DOMAIN list : list[i] = Arg(option)
    /\ \A i \in DOMAIN list :
          list[i] = Arg(option) => (i < Len(list) /\ list[i + 1] = Arg(value))

\* C27 (as the specification states it): in argv the input repository is
\* the first element, "--calib" is followed by the calibration repository,
\* "--output" by the output repository and "--rerun" by the rerun name,
\* and an option whose value is absent is not in argv.
C27_RepositoryOptionsCarryOwnValue ==
    argvMade =>
        /\ cmdArgs.inputRepo # None => argv[1] = Arg(cmdArgs.inputRepo)
        /\ IF cmdArgs.calibRepo # None
           THEN Follows(argv, "--calib", cmdArgs.calibRepo)
           ELSE \A i \in DOMAIN argv : argv[i] # Arg("--calib")
        /\ IF cmdArgs.outputRepo # None
           THEN Follows(argv, "--output", cmdArgs.outputRepo)
           ELSE \A i \in DOMAIN argv : argv[i] # Arg("--output")
        /\ IF cmdArgs.rerun # None
           THEN Follows(argv, "--rerun", cmdArgs.rerun)
           ELSE \A i \in DOMAIN argv : argv[i] # Arg("--rerun")

-----------------------------------------------------------------------------
(* Further claims about graph2dot.                                         *)

NodePositions == { k \in DOMAIN written : written[k].kind \in {"task", "ds"} }
EdgePositions == { k \in DOMAIN written : written[k].kind = "edge" }
DSPositions == { k \in DOMAIN written : written[k].kind = "ds" }
DeclaredBefore(nodesAt, name, k) == \E l \in nodesAt : l < k /\ written[l].a = name

\* C28: in the text written every node id is declared once; the ids of
\* task nodes are task_<step>_<quantum>, those of dataset nodes are
\* dsref_<k> with k counting from 0 in the order of the declarations; both
\* ends of every edge are declared before the edge; and all statements lie
\* after the opening line and, once graph2dot has returned, before the
\* closing line, which is the last.
C28_WellFormedText ==
    LET nodesAt == NodePositions
        dsAt == DSPositions
    IN /\ \A k, l \in nodesAt : written[k].a = written[l].a => k = l
       /\ \A k \in nodesAt :
             IF written[k].kind = "task"
             THEN written[k].a.p = "task"
                  /\ written[k].a.a \in 0..(MaxSteps - 1)
                  /\ written[k].a.b \in 0..(MaxQuanta - 1)
             ELSE written[k].a = DSNodeName(Cardinality({ l \in dsAt : l < k }))
       /\ \A k \in EdgePositions :
             /\ DeclaredBefore(nodesAt, written[k].a, k)
             /\ DeclaredBefore(nodesAt, written[k].b, k)
       /\ \A k \in DOMAIN written :
             /\ written[k] = Header <=> k = 1
             /\ written[k] = Footer => (k = Len(written) /\ gpc = "done")
       /\ gpc = "done" => written[Len(written)] = Footer

C28_Witness ==
    /\ gpc = "done"
    /\ Cardinality(DSPositions) = 2
    /\ Cardinality(NodePositions) = 4
    /\ Cardinality(EdgePositions) = 2

-----------------------------------------------------------------------------
(* Claims about buildPlan.                                                 *)

\* The outputs, and the inputs, of the quanta of the j-th task processed.
DeclaredOutputs(j) == UNION { handed[j].quanta[q].outputs : q \in DOMAIN handed[j].quanta }
DeclaredInputs(j) == UNION { handed[j].quanta[q].inputs : q \in DOMAIN handed[j].quanta }

\* C23: in forward mode the tasks are processed in pipeline order; the
\* pool of available inputs handed to the task at a position is
\* availableInputs merged with the outputs of all quanta of the tasks at
\* the positions before it, and of no other; the plan has one step per
\* task, in pipeline order, with the quanta the task declared; and the
\* caller's availableInputs stays as it was.
C23_ForwardPlan ==
    (bpc \in {"forward", "done"} /\ PlanMode(request.requestedOutputs) = "forward") =>
        /\ \A k \in DOMAIN handed :
              /\ handed[k].position = k
              /\ handed[k].outputs = {}
              /\ handed[k].inputs =
                    request.availableInputs \cup
                    UNION { DeclaredOutputs(j) : j \in 1..(k - 1) }
        /\ Len(plan) = Len(handed)
        /\ \A i \in DOMAIN plan :
              plan[i] = ExecutionStep(i, planPipeline[i], handed[i].quanta)
        /\ bpc = "done" => Len(plan) = Len(planPipeline)
        /\ callerSets = request

C23_Witness ==
    /\ bpc = "done"
    /\ PlanMode(request.requestedOutputs) = "forward"
    /\ planPipeline = <<"T", "U">>
    /\ request.availableInputs = {"raw"}
    /\ handed[2].inputs = {"raw", "calexp"}
    /\ Len(handed[2].quanta) = 1
    /\ planPool = {"raw", "calexp", "src"}

\* C24: in backward mode the tasks are processed in reverse pipeline
\* order; the pool of required outputs handed to the task at a position is
\* requestedOutputs merged with the inputs of all quanta of the tasks at
\* the positions after it; and the plan returned has one step per task in
\* forward pipeline order, step i being that of pipeline task i.
C24_BackwardPlan ==
    (bpc \in {"backward", "done"} /\ PlanMode(request.requestedOutputs) = "backward") =>
        LET n == Len(planPipeline)
        IN /\ \A k \in DOMAIN handed :
                 /\ handed[k].position = n - k + 1
                 /\ handed[k].inputs = {}
                 /\ handed[k].outputs =
                       request.requestedOutputs \cup
                       UNION { DeclaredInputs(j) : j \in 1..(k - 1) }
           /\ Len(plan) = Len(handed)
           /\ \A i \in DOMAIN plan :
                 LET position == n - Len(plan) + i
                 IN plan[i] = ExecutionStep(position, planPipeline[position],
                                            handed[n - position + 1].quanta)
           /\ bpc = "done" =>
                 /\ Len(plan) = n
                 /\ \A i \in 1..n : plan[i].position = i /\ plan[i].task = planPipeline[i]
           /\ callerSets = request

C24_Witness ==
    /\ bpc = "done"
    /\ PlanMode(request.requestedOutputs) = "backward"
    /\ planPipeline = <<"T", "U">>
    /\ request.requestedOutputs = {"src"}
    /\ handed[2].position = 1
    /\ handed[2].outputs = {"src", "calexp"}
    /\ plan[1].task = "T"
    /\ Len(plan[1].quanta) = 1

====
